---- MODULE Spec2Model ----
(***************************************************************************)
(* State-machine model of the core of the Solana arbitrage bot:            *)
(*   - the circuit breaker and the RPC connection pool (cache with TTL,    *)
(*     breaker gate, bounded retry with backoff, round-robin client        *)
(*     selection) of src/src/rpc/pool.rs;                                  *)
(*   - the object pool of src/src/pool/object_pool.rs;                     *)
(*   - run_bot, the blockhash refresher and the strategy loops of          *)
(*     src/src/engine/bot.rs.                                              *)
(*                                                                         *)
(* The specifications share the variables; each leaves the variables of    *)
(* the other components at their initial values:                           *)
(*   SpecCB      a CircuitBreaker value driven directly by record_success, *)
(*               record_failure and can_attempt, for any threshold and     *)
(*               timeout (as the unit tests of pool.rs drive it);          *)
(*   Spec        an RpcPool whose callers (workload.callers) invoke        *)
(*               get_account_with_retry, with clear_cache and a clock;     *)
(*               each step of an invocation is one critical section of     *)
(*               the code or one answer of an endpoint;                    *)
(*   SpecOneKey  Spec with callers that request a single account;          *)
(*   SpecRoundRobin  two concurrent invocations on a pool of one or more   *)
(*               clients, within one reading of the clock;                 *)
(*   SpecEmpty   an RpcPool built from an empty list of URLs;              *)
(*   SpecOP      an ObjectPool used by one or two threads;                 *)
(*   SpecEng     run_bot from its call on, with its tasks and the guards   *)
(*               of its two kinds of Mutex;                                *)
(*   SpecEngFair SpecEng with fair scheduling of its tasks;                *)
(*   SpecLegacy  run_bot of src/src/bot.rs;                                *)
(*   SpecShutdown  SpecEng next to a ShutdownHandler (src/src/health.rs).  *)
(* Time is a monotonic clock `now` (std::time::Instant) in whole seconds.  *)
(***************************************************************************)
EXTENDS Integers, Sequences, FiniteSets, TLC

VARIABLES
    now,        \* Instant::now(): the monotonic clock, in seconds
    cb,         \* the CircuitBreaker (RpcPool.circuit_breaker, or the value under test)
    before,     \* SpecCB: the breaker as it was when the last method was called
    op,         \* SpecCB: the last CircuitBreaker method called
    called_at,  \* SpecCB: the time of that call
    ret,        \* SpecCB: what the last can_attempt() returned
    streak,     \* SpecCB: record_failure() calls since construction / the last record_success()
    probes,     \* SpecCB: Open -> HalfOpen transitions since the last record_failure()
    clients,    \* RpcPool.clients.len()
    cache_ttl,  \* RpcPool.cache_ttl, in seconds
    cache,      \* RpcPool.cache: key -> NoEntry or [data, expires_at]
    current_client_index,   \* RpcPool.current_client_index
    index_poisoned,         \* whether the index RwLock was poisoned by a panic
    selections,             \* history: the get_next_client calls so far, and the latest caller
    workload,   \* the callers of the pool, the keys they request, the accounts endpoints serve
    task,       \* the invocations of get_account_with_retry: task -> locals and position
    exhausted,  \* Spec: invocations that exhausted their attempts since the last successful fetch
    capacity,       \* ObjectPool::new: initial_capacity
    objects,        \* ObjectPool.objects: the Vec<T> under the Mutex, as a sequence of instances
    factory_calls,  \* calls of ObjectPool.factory so far; the n-th call makes instance n
    handle,         \* the PooledObject values: slot -> [live, owner, obj]
    thr,            \* the threads using the ObjectPool: thread -> position and locals
    users,          \* the threads that use the ObjectPool
    main,               \* run_bot: position and result
    cached_blockhash,   \* run_bot: the Arc<Mutex<Hash>> shared by refresher and strategies
    refresher,          \* the blockhash_refresher task
    strategy,           \* the strategy tasks: mint -> position and locals
    chain,              \* the latest blockhash of the network
    env,                \* the collaborators of run_bot: which of their calls fail
    should_shutdown,    \* ShutdownHandler.should_shutdown
    token_lock,         \* the Mutex of cached_blockhash: the task holding its guard
    pool_data_lock,     \* the Mutex of each mint_pool_data: mint -> the task holding its guard
    hist                \* history of run_bot: tokens obtained, tasks spawned, calls in flight

vars == <<now, cb, before, op, called_at, ret, streak, probes, clients, cache_ttl, cache,
          current_client_index, index_poisoned, selections, workload, task, exhausted,
          capacity, objects, factory_calls, handle, thr, users,
          main, cached_blockhash, refresher, strategy, chain, env,
          should_shutdown, token_lock, pool_data_lock, hist>>

cbHist   == <<before, op, called_at, ret, streak, probes>>
config   == <<clients, cache_ttl, workload>>
poolVars == <<clients, cache_ttl, cache, current_client_index, index_poisoned, selections,
              workload, task,
              exhausted>>
rpcVars  == <<now, cb, cbHist, poolVars>>
objVars  == <<capacity, objects, factory_calls, handle, thr, users>>
engVars  == <<main, cached_blockhash, refresher, strategy, chain, env,
              should_shutdown, token_lock, pool_data_lock, hist>>

----------------------------------------------------------------------------
(* Bounds of the model *)

MaxTime         == 3    \* SpecCB: the clock stops advancing here
MaxSeconds      == 1    \* Spec: the clock is read at the seconds 0..MaxSeconds and at
MaxTimeouts     == 1    \*       j * (breaker timeout), j in 1..MaxTimeouts
MaxTtl          == 1    \* Spec: cache_ttl (seconds) is drawn from 0..MaxTtl
MaxClients      == 2    \* Spec: the number of endpoints (urls) given to RpcPool::new
MaxThreshold    == 3    \* SpecCB: failure_threshold is drawn from 0..MaxThreshold
MaxTimeout      == 2    \* SpecCB: timeout (seconds) is drawn from 0..MaxTimeout
MaxFailureCount == 6    \* failure_count (u32) is not driven past this value
MaxCapacity     == 2    \* SpecOP: initial_capacity is drawn from 0..MaxCapacity
MaxHandles      == 3    \* SpecOP: at most this many PooledObject values exist at once
MaxBlockhash    == 2    \* SpecEng: the chain produces the blockhashes 1..MaxBlockhash
MaxSignatures   == 1    \* SpecEng: build_and_send_transaction returns at most this many signatures

----------------------------------------------------------------------------
(* Option<Instant>::None *)
None == -1

(* CircuitBreaker::new *)
CircuitBreaker_new(failure_threshold, timeout_secs) ==
    [ state             |-> "Closed",
      failure_count     |-> 0,
      last_failure_time |-> None,
      failure_threshold |-> failure_threshold,
      timeout           |-> timeout_secs ]

(* faulty variant: the reset forgets the counter *)
record_success_KeepsCount(b) ==
    [b EXCEPT !.state = "Closed"]

(* faulty variant: the reset clears the counter but not the state *)
record_success_KeepsState(b) ==
    [b EXCEPT !.failure_count = 0]

(* CircuitBreaker::record_success *)
record_success(b) ==
    [b EXCEPT !.failure_count = 0, !.state = "Closed"]

(* faulty variant: the threshold is compared with > *)
record_failure_StrictThreshold(b, t) ==
    LET n == b.failure_count + 1
    IN  [b EXCEPT !.failure_count     = n,
                  !.last_failure_time = t,
                  !.state             = IF n > b.failure_threshold THEN "Open" ELSE @]

(* faulty variant: a failed probe does not count *)
record_failure_ProbeNotCounted(b, t) ==
    LET n == IF b.state = "HalfOpen" THEN b.failure_count ELSE b.failure_count + 1
    IN  [b EXCEPT !.failure_count     = n,
                  !.last_failure_time = t,
                  !.state             = IF n >= b.failure_threshold THEN "Open" ELSE @]

(* faulty variant: a failure recorded while Open keeps the time of the
   failure that opened the breaker *)
record_failure_KeepsOpenTime(b, t) ==
    LET n == b.failure_count + 1
    IN  [b EXCEPT !.failure_count     = n,
                  !.last_failure_time = IF b.state = "Open" THEN @ ELSE t,
                  !.state             = IF n >= b.failure_threshold THEN "Open" ELSE @]

(* faulty variant: the breaker opens without recording the time *)
record_failure_NoTime(b, t) ==
    LET n == b.failure_count + 1
    IN  [b EXCEPT !.failure_count     = n,
                  !.state             = IF n >= b.failure_threshold THEN "Open" ELSE @]

(* CircuitBreaker::record_failure, called at time t *)
record_failure(b, t) ==
    LET n == b.failure_count + 1
    IN  [b EXCEPT !.failure_count     = n,
                  !.last_failure_time = t,
                  !.state             = IF n >= b.failure_threshold THEN "Open" ELSE @]

(* Instant::elapsed of last_failure at time t *)
elapsed(last_failure, t) == IF t >= last_failure THEN t - last_failure ELSE 0

(* faulty variant: a Closed breaker with failures starts probing *)
can_attempt_ClosedProbes(b, t) ==
    CASE b.state = "Closed"   ->
            [cb |-> [b EXCEPT !.state = IF b.failure_count > 0 THEN "HalfOpen" ELSE @],
             ret |-> TRUE]
      [] b.state = "Open"     ->
            IF b.last_failure_time # None
            THEN IF elapsed(b.last_failure_time, t) >= b.timeout
                 THEN [cb |-> [b EXCEPT !.state = "HalfOpen"], ret |-> TRUE]
                 ELSE [cb |-> b, ret |-> FALSE]
            ELSE [cb |-> b, ret |-> FALSE]
      [] b.state = "HalfOpen" -> [cb |-> b, ret |-> TRUE]

(* faulty variant: only the caller that made the transition may probe *)
can_attempt_SingleProbe(b, t) ==
    CASE b.state = "Closed"   -> [cb |-> b, ret |-> TRUE]
      [] b.state = "Open"     ->
            IF b.last_failure_time # None
            THEN IF elapsed(b.last_failure_time, t) >= b.timeout
                 THEN [cb |-> [b EXCEPT !.state = "HalfOpen"], ret |-> TRUE]
                 ELSE [cb |-> b, ret |-> FALSE]
            ELSE [cb |-> b, ret |-> FALSE]
      [] b.state = "HalfOpen" -> [cb |-> b, ret |-> FALSE]

(* faulty variant: the probe is allowed but the state stays Open *)
can_attempt_NoTransition(b, t) ==
    CASE b.state = "Closed"   -> [cb |-> b, ret |-> TRUE]
      [] b.state = "Open"     ->
            IF b.last_failure_time # None
            THEN IF elapsed(b.last_failure_time, t) >= b.timeout
                 THEN [cb |-> b, ret |-> TRUE]
                 ELSE [cb |-> b, ret |-> FALSE]
            ELSE [cb |-> b, ret |-> FALSE]
      [] b.state = "HalfOpen" -> [cb |-> b, ret |-> TRUE]

(* faulty variant: the timeout is compared with > *)
can_attempt_StrictTimeout(b, t) ==
    CASE b.state = "Closed"   -> [cb |-> b, ret |-> TRUE]
      [] b.state = "Open"     ->
            IF b.last_failure_time # None
            THEN IF elapsed(b.last_failure_time, t) > b.timeout
                 THEN [cb |-> [b EXCEPT !.state = "HalfOpen"], ret |-> TRUE]
                 ELSE [cb |-> b, ret |-> FALSE]
            ELSE [cb |-> b, ret |-> FALSE]
      [] b.state = "HalfOpen" -> [cb |-> b, ret |-> TRUE]

(* CircuitBreaker::can_attempt, called at time t: the breaker after the call
   and the value returned *)
can_attempt(b, t) ==
    CASE b.state = "Closed"   -> [cb |-> b, ret |-> TRUE]
      [] b.state = "Open"     ->
            IF b.last_failure_time # None
            THEN IF elapsed(b.last_failure_time, t) >= b.timeout
                 THEN [cb |-> [b EXCEPT !.state = "HalfOpen"], ret |-> TRUE]
                 ELSE [cb |-> b, ret |-> FALSE]
            ELSE [cb |-> b, ret |-> FALSE]
      [] b.state = "HalfOpen" -> [cb |-> b, ret |-> TRUE]

----------------------------------------------------------------------------
(* Constants of src/src/constants.rs and of RpcPool::new *)

MAX_RPC_RETRIES          == 5
RETRY_INITIAL_BACKOFF_MS == 100
RETRY_MAX_BACKOFF_MS     == 5000
POOL_FAILURE_THRESHOLD   == 5     \* CircuitBreaker::new(5, 30) in RpcPool::new
POOL_BREAKER_TIMEOUT     == 30

----------------------------------------------------------------------------
(* Errors (BotError) *)

NoError == [kind |-> "None", endpoint |-> "", message |-> "", retryable |-> FALSE,
            address |-> "", reason |-> 0]

(* BotError::RpcError { endpoint, message, retryable } *)
RpcError(endpoint, message, retryable) ==
    [kind |-> "RpcError", endpoint |-> endpoint, message |-> message,
     retryable |-> retryable, address |-> "", reason |-> 0]

(* BotError::AccountFetchError { address, reason }; the reason text of the
   client error of one attempt is represented by the ordinal of that attempt,
   so that the errors of different attempts are different values *)
AccountFetchError(address, reason) ==
    [kind |-> "AccountFetchError", endpoint |-> "", message |-> "",
     retryable |-> FALSE, address |-> address, reason |-> reason]

(* BotError::is_retryable *)
is_retryable(e) ==
    CASE e.kind = "RpcError" -> e.retryable
      [] e.kind \in {"SolanaClientError", "AccountFetchError", "TransactionSendError"} -> TRUE
      [] OTHER -> FALSE

(* the error of the breaker gate *)
CircuitOpenError == RpcError("pool", "Circuit breaker is OPEN", TRUE)

(* the fallback error when no attempt left an error *)
ExhaustedError == RpcError("pool", "All retry attempts exhausted", TRUE)

----------------------------------------------------------------------------
(* The cache *)

Keys   == {"k1", "k2"}     \* Pubkeys requested
Values == {"a1", "a2"}     \* Account data an endpoint may return
Tasks  == {1, 2}           \* concurrent invocations of get_account_with_retry

NoEntry == [data |-> "none", expires_at |-> None]

NoAccount == "none"

(* faulty variant: the expiry test is inverted *)
get_from_cache_InvertedExpiry(c, k, t) ==
    IF c[k] # NoEntry /\ c[k].expires_at < t
    THEN [some |-> TRUE, data |-> c[k].data]
    ELSE [some |-> FALSE, data |-> NoAccount]

(* faulty variant: the entry is still served at its expiry instant *)
get_from_cache_InclusiveExpiry(c, k, t) ==
    IF c[k] # NoEntry /\ c[k].expires_at >= t
    THEN [some |-> TRUE, data |-> c[k].data]
    ELSE [some |-> FALSE, data |-> NoAccount]

(* RpcPool::get_from_cache at time t: Some(data) or None *)
get_from_cache(c, k, t) ==
    IF c[k] # NoEntry /\ c[k].expires_at > t
    THEN [some |-> TRUE, data |-> c[k].data]
    ELSE [some |-> FALSE, data |-> NoAccount]

(* faulty variant: the entry expires when it is stored *)
add_to_cache_NoTtl(c, k, account, t, ttl) ==
    [c EXCEPT ![k] = [data |-> account, expires_at |-> t]]

(* RpcPool::add_to_cache at time t *)
add_to_cache(c, k, account, t, ttl) ==
    [c EXCEPT ![k] = [data |-> account, expires_at |-> t + ttl]]

(* faulty variant: an entry at its expiry instant is counted as valid *)
get_cache_stats_StrictExpiry(c, t) ==
    LET total   == Cardinality({k \in Keys : c[k] # NoEntry})
        expired == Cardinality({k \in Keys : c[k] # NoEntry /\ c[k].expires_at < t})
    IN  <<total - expired, expired>>

(* RpcPool::get_cache_stats at time t: (valid, expired) *)
get_cache_stats(c, t) ==
    LET total   == Cardinality({k \in Keys : c[k] # NoEntry})
        expired == Cardinality({k \in Keys : c[k] # NoEntry /\ c[k].expires_at <= t})
    IN  <<total - expired, expired>>

(* faulty variant: the index is stored as it was *)
get_next_client_Sticky(index, n) ==
    [client |-> index % n, index |-> index % n]

(* RpcPool::get_next_client with n > 0 clients: the client chosen and the index stored *)
get_next_client(index, n) ==
    [client |-> index % n, index |-> (index + 1) % n]

(* no get_next_client call yet; the calls are counted modulo the number of
   clients *)
NoSelection == [count |-> 0, by |-> 0]

(* faulty variant: the range is inclusive *)
in_retry_range_Inclusive(attempt) == attempt <= MAX_RPC_RETRIES

(* the range check of `for attempt in 0..MAX_RPC_RETRIES` *)
in_retry_range(attempt) == attempt < MAX_RPC_RETRIES

(* faulty variant: the task also sleeps after the last attempt *)
sleeps_after_Always(attempt) == attempt < MAX_RPC_RETRIES

(* `if attempt < MAX_RPC_RETRIES - 1`: whether a failed attempt is followed by a sleep *)
sleeps_after(attempt) == attempt < MAX_RPC_RETRIES - 1

(* faulty variant: only the first error is kept *)
remember_error_First(last_error, e) == IF last_error = NoError THEN e ELSE last_error

(* `last_error = Some(e)` *)
remember_error(last_error, e) == e

(* `backoff_ms = (backoff_ms * 2).min(RETRY_MAX_BACKOFF_MS)` *)
next_backoff(backoff_ms) ==
    IF backoff_ms * 2 < RETRY_MAX_BACKOFF_MS THEN backoff_ms * 2 ELSE RETRY_MAX_BACKOFF_MS

----------------------------------------------------------------------------
(* The invocations of get_account_with_retry *)

NoResult == [kind |-> "None", value |-> NoAccount, error |-> NoError]
Ok(v)    == [kind |-> "Ok", value |-> v, error |-> NoError]
Err(e)   == [kind |-> "Err", value |-> NoAccount, error |-> e]
Panic    == [kind |-> "Panic", value |-> NoAccount, error |-> NoError]

IdleTask ==
    [ pc         |-> "idle",
      key        |-> "k1",
      attempt    |-> 0,                            \* the loop variable
      backoff_ms |-> RETRY_INITIAL_BACKOFF_MS,
      last_error |-> NoError,                      \* Option<BotError>
      account    |-> NoAccount,                    \* the Ok(account) of an attempt
      client     |-> 0,                            \* the client chosen for the attempt
      result     |-> NoResult,                     \* what the invocation returned
      fetches    |-> 0,                            \* history: endpoint calls made
      seen_error |-> NoError,                      \* history: error of the latest endpoint call
      slept      |-> << >>,                        \* history: the sleeps made, in ms
      guards     |-> {},                           \* the RwLock guards alive between two steps
      peak       |-> 0 ]                           \* history: the most guards alive at once

(* the RwLocks of RpcPool *)
Locks == {"cache", "breaker", "index"}

(* faulty variant: the guard outlives the section *)
lock_section_KeepsGuard(t, l) ==
    [t EXCEPT !.peak = IF Cardinality(t.guards \cup {l}) > @
                       THEN Cardinality(t.guards \cup {l}) ELSE @,
              !.guards = @ \cup {l}]

(* the invocation t takes the guard of lock l (read().unwrap() or
   write().unwrap()) for one statement or block, at whose end the guard is
   dropped *)
lock_section(t, l) ==
    [t EXCEPT !.peak = IF Cardinality(t.guards \cup {l}) > @
                       THEN Cardinality(t.guards \cup {l}) ELSE @]

(* the invocation has returned (or unwound): its locals are gone; the history
   of the invocation stays until the task calls again *)
Returned(t, r) ==
    [IdleTask EXCEPT !.pc = "done", !.key = t.key, !.result = r, !.fetches = t.fetches,
                     !.peak = t.peak]

----------------------------------------------------------------------------
(* The ObjectPool of src/src/pool/object_pool.rs.  An instance of T is named
   by the ordinal of the factory call that made it. *)

Threads == {1, 2}
Handles == 1..MaxHandles

(* Option<T>::None *)
NoObj == 0

(* no PooledObject in the slot *)
NoHandle == [live |-> FALSE, owner |-> 0, obj |-> NoObj]

(* PooledObject { obj: Some(obj), pool } built by thread t *)
PooledObject(t, obj) == [live |-> TRUE, owner |-> t, obj |-> obj]

(* a thread between two operations on the pool *)
IdleThread == [pc |-> "idle", obj |-> NoObj, h |-> 0]

(* ObjectPool::new(factory, initial_capacity) *)
ObjectPool_new(initial_capacity) ==
    [ objects       |-> [i \in 1..initial_capacity |-> i],
      factory_calls |-> initial_capacity ]

(* ObjectPool::size *)
size(objs) == Len(objs)

(* faulty variant: the factory is called whether or not the pool is empty *)
pop_or_create_AlwaysCreates(objs, calls) ==
    [obj |-> calls + 1, objects |-> objs, factory_calls |-> calls + 1]

(* faulty variant: the instance handed out stays in the pool *)
pop_or_create_Peek(objs, calls) ==
    IF Len(objs) > 0
    THEN [obj |-> objs[Len(objs)], objects |-> objs, factory_calls |-> calls]
    ELSE [obj |-> calls + 1, objects |-> objs, factory_calls |-> calls + 1]

(* `pool.pop().unwrap_or_else(|| (self.factory)())` under the lock: the
   instance obtained, the Vec and the number of factory calls afterwards *)
pop_or_create(objs, calls) ==
    IF Len(objs) > 0
    THEN [obj |-> objs[Len(objs)], objects |-> SubSeq(objs, 1, Len(objs) - 1),
          factory_calls |-> calls]
    ELSE [obj |-> calls + 1, objects |-> objs, factory_calls |-> calls + 1]

(* faulty variant: the dropped instance is discarded *)
push_back_Discards(objs, obj) == objs

(* `pool.push(obj)` under the lock *)
push_back(objs, obj) == Append(objs, obj)

(* no ObjectPool in use *)
NoObjectPool ==
    /\ capacity = 0
    /\ objects = << >>
    /\ factory_calls = 0
    /\ handle = [h \in Handles |-> NoHandle]
    /\ thr = [t \in Threads |-> IdleThread]
    /\ users = {}

----------------------------------------------------------------------------
(* run_bot, blockhash_refresher and the strategy loops of
   src/src/engine/bot.rs.  A blockhash is named by its ordinal on the chain. *)

Mints == {1, 2}

(* config.routing.mint_config_list *)
mint_config_list == <<1, 2>>

(* no Hash *)
NoHash == 0

(* the values of a solana Signature: a real one, or Signature::default() *)
SignatureValues == {"sig", "default"}

(* the Vec<Signature> values build_and_send_transaction may return *)
SignatureLists == UNION {[1..n -> SignatureValues] : n \in 0..MaxSignatures}

(* a strategy task that was not spawned *)
NoStrategy ==
    [ pc               |-> "none",
      latest_blockhash |-> NoHash,     \* the copy of the cached blockhash
      signatures       |-> << >>,      \* the signatures still to be logged
      outcome          |-> "none",     \* history: result of the latest build_and_send_transaction
      log_failed       |-> FALSE ]     \* history: a log_trade of this iteration failed

(* the blockhash_refresher task, not spawned *)
NoRefresher == [pc |-> "none", blockhash |-> NoHash]

(* BotError::WalletError, ConfigError, InvalidPublicKey, ...: the errors of
   run_bot other than RpcError and AccountFetchError *)
StartupError(kind, message) ==
    [kind |-> kind, endpoint |-> "", message |-> message, retryable |-> FALSE,
     address |-> "", reason |-> 0]

(* the error of lines 80-82 *)
InitialBlockhashError ==
    RpcError("config.rpc.url", "Failed to get initial blockhash", TRUE)

(* the tasks of the runtime that are alive *)
Running(t) == t.pc \notin {"none", "cancelled"}

(* the tasks that take the locks of run_bot: the strategy of a mint is named
   by the mint, the refresher by RefresherTask; Unlocked: no guard exists *)
RefresherTask == 0
Unlocked == 0 - 1

(* nothing has happened yet *)
NoHistory ==
    [ fetched    |-> NoHash,               \* the latest blockhash the refresher obtained
      refreshers |-> 0,                    \* blockhash_refresher tasks spawned
      loops      |-> [m \in Mints |-> 0],  \* strategy tasks spawned, per mint
      in_flight  |-> [m \in Mints |-> 0] ] \* build_and_send_transaction calls not yet returned

(* run_bot is not running *)
NoEngine ==
    /\ main = [pc |-> "none", i |-> 1, result |-> NoResult]
    /\ cached_blockhash = NoHash
    /\ refresher = NoRefresher
    /\ strategy = [m \in Mints |-> NoStrategy]
    /\ chain = 1
    /\ env = [db |-> FALSE, build |-> [m \in Mints |-> "any"]]
    /\ should_shutdown = FALSE
    /\ token_lock = Unlocked
    /\ pool_data_lock = [m \in Mints |-> Unlocked]
    /\ hist = NoHistory

----------------------------------------------------------------------------
(* the invocations that may still call record_failure() *)
(* no other invocation holds the guard of lock l: read() or write() returns *)
lock_free(l, p) == \A q \in Tasks \ {p} : l \notin task[q].guards

Attempting == {p \in Tasks : task[p].pc \in {"select", "fetch", "sleep", "record_failure"}}

Init ==
    /\ now = 0
    /\ cb = CircuitBreaker_new(POOL_FAILURE_THRESHOLD, POOL_BREAKER_TIMEOUT)
    /\ before = cb
    /\ op = "new"
    /\ called_at = 0
    /\ ret = TRUE
    /\ streak = 0
    /\ probes = 0
    /\ clients = MaxClients
    /\ cache_ttl \in 0..MaxTtl
    /\ workload = [callers |-> {1}, pubkeys |-> Keys, accounts |-> Values]
    /\ cache = [k \in Keys |-> NoEntry]
    /\ current_client_index = 0
    /\ index_poisoned = FALSE
    /\ selections = NoSelection
    /\ task = [p \in Tasks |-> IdleTask]
    /\ exhausted = 0
    /\ NoObjectPool
    /\ NoEngine

(* get_account_with_retry(pubkey) is called: the cache lookup of lines 116-120 *)
Start(p, k) ==
    /\ p \in workload.callers
    /\ k \in workload.pubkeys
    /\ task[p].pc \in {"idle", "done"}
    /\ lock_free("cache", p)
    /\ LET cached == get_from_cache(cache, k, now)
       IN  task' = [task EXCEPT ![p] =
                IF cached.some
                THEN Returned(lock_section([IdleTask EXCEPT !.key = k], "cache"),
                              Ok(cached.data))
                ELSE lock_section([IdleTask EXCEPT !.pc = "gate", !.key = k], "cache")]
    /\ UNCHANGED <<objVars, engVars, exhausted, now, cb, cbHist, config, cache, current_client_index, index_poisoned,
                   selections>>

(* faulty variant: a rejection is recorded as a failure *)
Gate_RecordsFailure(p) ==
    /\ task[p].pc = "gate"
    /\ lock_free("breaker", p)
    /\ LET r == can_attempt(cb, now)
       IN  /\ r.ret => cb.failure_count + Cardinality(Attempting) < MaxFailureCount
           /\ cb' = IF r.ret THEN r.cb ELSE record_failure(r.cb, now)
           /\ task' = [task EXCEPT ![p] =
                    IF r.ret
                    THEN lock_section([@ EXCEPT !.pc = "select"], "breaker")
                    ELSE Returned(lock_section(task[p], "breaker"),
                                  Err(CircuitOpenError))]
    /\ UNCHANGED <<objVars, engVars, exhausted, now, cbHist, config, cache, current_client_index, index_poisoned,
                   selections>>

(* the breaker gate of lines 122-132 *)
Gate(p) ==
    /\ task[p].pc = "gate"
    /\ lock_free("breaker", p)
    /\ LET r == can_attempt(cb, now)
       IN  /\ r.ret => cb.failure_count + Cardinality(Attempting) < MaxFailureCount
           /\ cb' = r.cb
           /\ task' = [task EXCEPT ![p] =
                    IF r.ret
                    THEN lock_section([@ EXCEPT !.pc = "select"], "breaker")
                    ELSE Returned(lock_section(task[p], "breaker"),
                                  Err(CircuitOpenError))]
    /\ UNCHANGED <<objVars, engVars, exhausted, now, cbHist, config, cache, current_client_index, index_poisoned,
                   selections>>

(* faulty variant: an empty client list is reported as an error value *)
Select_EmptyIsError(p) ==
    /\ task[p].pc = "select"
    /\ lock_free("index", p)
    /\ IF clients = 0
       THEN /\ task' = [task EXCEPT ![p] = Returned(task[p], Err(ExhaustedError))]
            /\ index_poisoned' = index_poisoned
            /\ UNCHANGED <<current_client_index, selections>>
       ELSE LET c == get_next_client(current_client_index, clients)
            IN  /\ task' = [task EXCEPT ![p] =
                        lock_section([@ EXCEPT !.pc = "fetch", !.client = c.client],
                                     "index")]
                /\ current_client_index' = c.index
                /\ selections' = [count |-> (selections.count + 1) % clients, by |-> p]
                /\ UNCHANGED index_poisoned
    /\ UNCHANGED <<objVars, engVars, exhausted, now, cb, cbHist, config, cache>>

(* faulty variant: the breaker is consulted before every attempt *)
Select_Gated(p) ==
    \/ /\ cb.state = "Open"
       /\ task[p].pc = "select"
       /\ task' = [task EXCEPT ![p] = Returned(task[p], Err(CircuitOpenError))]
       /\ UNCHANGED <<objVars, engVars, exhausted, now, cb, cbHist, config, cache,
                      current_client_index, index_poisoned, selections>>
    \/ /\ cb.state # "Open"
       /\ task[p].pc = "select"
       /\ lock_free("index", p)
       /\ IF index_poisoned \/ clients = 0
          THEN /\ task' = [task EXCEPT ![p] = Returned(task[p], Panic)]
               /\ index_poisoned' = TRUE
               /\ UNCHANGED <<current_client_index, selections>>
          ELSE LET c == get_next_client(current_client_index, clients)
               IN  /\ task' = [task EXCEPT ![p] =
                           lock_section([@ EXCEPT !.pc = "fetch", !.client = c.client],
                                        "index")]
                   /\ current_client_index' = c.index
                   /\ selections' = [count |-> (selections.count + 1) % clients, by |-> p]
                   /\ UNCHANGED index_poisoned
       /\ UNCHANGED <<objVars, engVars, exhausted, now, cb, cbHist, config, cache>>

(* attempt_get_account, first half: get_next_client under the index lock.
   With no client the `% self.clients.len()` panics while the write guard is
   held, which poisons the lock; a poisoned lock makes write().unwrap() panic. *)
Select(p) ==
    /\ task[p].pc = "select"
    /\ lock_free("index", p)
    /\ IF index_poisoned \/ clients = 0
       THEN /\ task' = [task EXCEPT ![p] = Returned(task[p], Panic)]
            /\ index_poisoned' = TRUE
            /\ UNCHANGED <<current_client_index, selections>>
       ELSE LET c == get_next_client(current_client_index, clients)
            IN  /\ task' = [task EXCEPT ![p] =
                        lock_section([@ EXCEPT !.pc = "fetch", !.client = c.client],
                                     "index")]
                /\ current_client_index' = c.index
                /\ selections' = [count |-> (selections.count + 1) % clients, by |-> p]
                /\ UNCHANGED index_poisoned
    /\ UNCHANGED <<objVars, engVars, exhausted, now, cb, cbHist, config, cache>>

(* where the loop goes after the failed attempt `attempt` once any sleep is over *)
after_attempt(attempt) ==
    IF in_retry_range(attempt + 1) THEN "select" ELSE "record_failure"

(* attempt_get_account, second half: client.get_account(pubkey) answers *)
FetchOk(p, v) ==
    /\ task[p].pc = "fetch"
    /\ v \in workload.accounts
    /\ task' = [task EXCEPT ![p] =
            [@ EXCEPT !.pc = "record_success", !.account = v, !.fetches = @ + 1]]
    /\ exhausted' = 0
    /\ UNCHANGED <<objVars, engVars, now, cb, cbHist, config, cache, current_client_index, index_poisoned,
                   selections>>

FetchErr(p) ==
    /\ task[p].pc = "fetch"
    /\ LET t == task[p]
           e == AccountFetchError(t.key, t.attempt + 1)
       IN  task' = [task EXCEPT ![p] =
                IF sleeps_after(t.attempt)
                THEN [@ EXCEPT !.pc = "sleep", !.last_error = remember_error(@, e),
                               !.seen_error = e,
                               !.fetches = @ + 1,
                               !.slept = Append(@, t.backoff_ms)]
                ELSE [@ EXCEPT !.pc = after_attempt(t.attempt),
                               !.last_error = remember_error(@, e),
                               !.seen_error = e, !.fetches = @ + 1,
                               !.attempt = @ + 1]]
    /\ UNCHANGED <<objVars, engVars, exhausted, now, cb, cbHist, config, cache, current_client_index, index_poisoned,
                   selections>>

(* the backoff sleep of lines 151-152 ends *)
Wake(p) ==
    /\ task[p].pc = "sleep"
    /\ task' = [task EXCEPT ![p] =
            [@ EXCEPT !.pc = after_attempt(task[p].attempt),
                      !.backoff_ms = next_backoff(@),
                      !.attempt = @ + 1]]
    /\ UNCHANGED <<objVars, engVars, exhausted, now, cb, cbHist, config, cache, current_client_index, index_poisoned,
                   selections>>

(* line 142 *)
RecordSuccess(p) ==
    /\ task[p].pc = "record_success"
    /\ lock_free("breaker", p)
    /\ cb' = record_success(cb)
    /\ task' = [task EXCEPT ![p] = lock_section([@ EXCEPT !.pc = "add_to_cache"], "breaker")]
    /\ UNCHANGED <<objVars, engVars, exhausted, now, cbHist, config, cache, current_client_index, index_poisoned,
                   selections>>

(* lines 143-144 *)
AddToCache(p) ==
    /\ task[p].pc = "add_to_cache"
    /\ lock_free("cache", p)
    /\ cache' = add_to_cache(cache, task[p].key, task[p].account, now, cache_ttl)
    /\ task' = [task EXCEPT ![p] =
            Returned(lock_section(task[p], "cache"), Ok(task[p].account))]
    /\ UNCHANGED <<objVars, engVars, exhausted, now, cb, cbHist, config, current_client_index, index_poisoned,
                   selections>>

(* `last_error.unwrap_or_else(...)` *)
final_error(last_error) ==
    IF last_error # NoError THEN last_error ELSE ExhaustedError

(* faulty variant: the exhausted invocation returns without record_failure() *)
RecordFailure_Forgets(p) ==
    /\ task[p].pc = "record_failure"
    /\ task' = [task EXCEPT ![p] = Returned(task[p], Err(final_error(task[p].last_error)))]
    /\ exhausted' = exhausted + 1
    /\ UNCHANGED <<objVars, engVars, now, cb, cbHist, config, cache, current_client_index,
                   index_poisoned,
                   selections>>

(* lines 158-167 *)
RecordFailure(p) ==
    /\ task[p].pc = "record_failure"
    /\ lock_free("breaker", p)
    /\ cb' = record_failure(cb, now)
    /\ task' = [task EXCEPT ![p] =
            Returned(lock_section(task[p], "breaker"),
                     Err(final_error(task[p].last_error)))]
    /\ exhausted' = exhausted + 1
    /\ UNCHANGED <<objVars, engVars, now, cbHist, config, cache, current_client_index, index_poisoned,
                   selections>>

(* RpcPool::clear_cache *)
ClearCache ==
    /\ cache' = [k \in Keys |-> NoEntry]
    /\ UNCHANGED <<objVars, engVars, exhausted, now, cb, cbHist, config, current_client_index, index_poisoned,
                   selections, task>>

(* the instants at which the clock is read *)
Instants == (0..MaxSeconds) \cup {j * POOL_BREAKER_TIMEOUT : j \in 1..MaxTimeouts}

(* time passes *)
Tick(t) ==
    /\ t > now
    /\ now' = t
    /\ UNCHANGED <<objVars, engVars, cb, cbHist, poolVars>>

Next ==
    \/ \E p \in Tasks, k \in Keys : Start(p, k)
    \/ \E p \in Tasks : Gate(p)
    \/ \E p \in Tasks : Select(p)
    \/ \E p \in Tasks, v \in Values : FetchOk(p, v)
    \/ \E p \in Tasks : FetchErr(p)
    \/ \E p \in Tasks : Wake(p)
    \/ \E p \in Tasks : RecordSuccess(p)
    \/ \E p \in Tasks : AddToCache(p)
    \/ \E p \in Tasks : RecordFailure(p)
    \/ ClearCache
    \/ \E t \in Instants : Tick(t)

Spec == Init /\ [][Next]_vars

(* SpecOneKey: the same pool, whose caller requests a single account *)
InitOneKey ==
    /\ now = 0
    /\ cb = CircuitBreaker_new(POOL_FAILURE_THRESHOLD, POOL_BREAKER_TIMEOUT)
    /\ before = cb
    /\ op = "new"
    /\ called_at = 0
    /\ ret = TRUE
    /\ streak = 0
    /\ probes = 0
    /\ clients = MaxClients
    /\ cache_ttl \in 0..MaxTtl
    /\ workload = [callers |-> {1}, pubkeys |-> {"k1"}, accounts |-> Values]
    /\ cache = [k \in Keys |-> NoEntry]
    /\ current_client_index = 0
    /\ index_poisoned = FALSE
    /\ selections = NoSelection
    /\ task = [p \in Tasks |-> IdleTask]
    /\ exhausted = 0
    /\ NoObjectPool
    /\ NoEngine

SpecOneKey == InitOneKey /\ [][Next]_vars

(* two concurrent callers of a pool of 1..MaxClients clients that caches for
   MaxTtl seconds, one pubkey, one account value *)
InitRoundRobin ==
    /\ now = 0
    /\ cb = CircuitBreaker_new(POOL_FAILURE_THRESHOLD, POOL_BREAKER_TIMEOUT)
    /\ before = cb
    /\ op = "new"
    /\ called_at = 0
    /\ ret = TRUE
    /\ streak = 0
    /\ probes = 0
    /\ clients \in 1..MaxClients
    /\ cache_ttl = MaxTtl
    /\ workload = [callers |-> Tasks, pubkeys |-> {"k1"}, accounts |-> {"a1"}]
    /\ cache = [k \in Keys |-> NoEntry]
    /\ current_client_index = 0
    /\ index_poisoned = FALSE
    /\ selections = NoSelection
    /\ task = [p \in Tasks |-> IdleTask]
    /\ exhausted = 0
    /\ NoObjectPool
    /\ NoEngine

(* the steps of the invocation p of get_account_with_retry *)
Invocation(p) ==
    \/ \E k \in Keys : Start(p, k)
    \/ Gate(p)
    \/ Select(p)
    \/ \E v \in Values : FetchOk(p, v)
    \/ FetchErr(p)
    \/ Wake(p)
    \/ RecordSuccess(p)
    \/ AddToCache(p)
    \/ RecordFailure(p)

(* concurrent invocations within one reading of the clock *)
NextRoundRobin == \E p \in Tasks : Invocation(p)

SpecRoundRobin == InitRoundRobin /\ [][NextRoundRobin]_vars

(* SpecEmpty: RpcPool::new(vec![], ttl), whose collect() of no URL gives a
   pool without clients, and the calls that can be made to it *)
InitEmpty ==
    /\ now = 0
    /\ cb = CircuitBreaker_new(POOL_FAILURE_THRESHOLD, POOL_BREAKER_TIMEOUT)
    /\ before = cb
    /\ op = "new"
    /\ called_at = 0
    /\ ret = TRUE
    /\ streak = 0
    /\ probes = 0
    /\ clients = 0
    /\ cache_ttl \in 0..MaxTtl
    /\ workload = [callers |-> Tasks, pubkeys |-> Keys, accounts |-> Values]
    /\ cache = [k \in Keys |-> NoEntry]
    /\ current_client_index = 0
    /\ index_poisoned = FALSE
    /\ selections = NoSelection
    /\ task = [p \in Tasks |-> IdleTask]
    /\ exhausted = 0
    /\ NoObjectPool
    /\ NoEngine

(* what a call of get_account_with_retry on that pool gets to do *)
NextEmpty ==
    \/ \E p \in Tasks, k \in Keys : Start(p, k)
    \/ \E p \in Tasks : Gate(p)
    \/ \E p \in Tasks : Select(p)
    \/ \E t \in Instants : Tick(t)

SpecEmpty == InitEmpty /\ [][NextEmpty]_vars

----------------------------------------------------------------------------
(* SpecCB: a CircuitBreaker driven directly, as the unit tests drive it *)

InitCB ==
    /\ now = 0
    /\ \E f \in 0..MaxThreshold, t \in 0..MaxTimeout : cb = CircuitBreaker_new(f, t)
    /\ before = cb
    /\ op = "new"
    /\ called_at = 0
    /\ ret = TRUE
    /\ streak = 0
    /\ probes = 0
    /\ clients = 1
    /\ cache_ttl = 0
    /\ workload = [callers |-> {}, pubkeys |-> {}, accounts |-> {}]
    /\ cache = [k \in Keys |-> NoEntry]
    /\ current_client_index = 0
    /\ index_poisoned = FALSE
    /\ selections = NoSelection
    /\ task = [p \in Tasks |-> IdleTask]
    /\ exhausted = 0
    /\ NoObjectPool
    /\ NoEngine

(* cb.record_success() *)
CBRecordSuccess ==
    /\ cb' = record_success(cb)
    /\ before' = cb
    /\ op' = "record_success"
    /\ called_at' = now
    /\ streak' = 0
    /\ probes' = 0
    /\ UNCHANGED <<objVars, engVars, now, ret, poolVars>>

(* cb.record_failure() *)
CBRecordFailure ==
    /\ cb.failure_count < MaxFailureCount
    /\ cb' = record_failure(cb, now)
    /\ before' = cb
    /\ op' = "record_failure"
    /\ called_at' = now
    /\ streak' = streak + 1
    /\ probes' = 0
    /\ UNCHANGED <<objVars, engVars, now, ret, poolVars>>

(* cb.can_attempt() *)
CBCanAttempt ==
    LET r == can_attempt(cb, now)
    IN  /\ cb' = r.cb
        /\ before' = cb
        /\ ret' = r.ret
        /\ op' = "can_attempt"
        /\ called_at' = now
        /\ probes' = IF cb.state # "HalfOpen" /\ r.cb.state = "HalfOpen"
                     THEN probes + 1 ELSE probes
        /\ UNCHANGED <<objVars, engVars, now, streak, poolVars>>

(* std::thread::sleep between two calls *)
CBTick ==
    /\ now < MaxTime
    /\ now' = now + 1
    /\ UNCHANGED <<objVars, engVars, cb, cbHist, poolVars>>

NextCB == CBRecordSuccess \/ CBRecordFailure \/ CBCanAttempt \/ CBTick

SpecCB == InitCB /\ [][NextCB]_vars

----------------------------------------------------------------------------
(* SpecOP: an ObjectPool used by the threads `users`.  Each step is one
   critical section of the Mutex or the thread-local code around it. *)

(* no RpcPool in use *)
NoRpcPool ==
    /\ now = 0
    /\ cb = CircuitBreaker_new(POOL_FAILURE_THRESHOLD, POOL_BREAKER_TIMEOUT)
    /\ before = cb
    /\ op = "new"
    /\ called_at = 0
    /\ ret = TRUE
    /\ streak = 0
    /\ probes = 0
    /\ clients = 1
    /\ cache_ttl = 0
    /\ workload = [callers |-> {}, pubkeys |-> {}, accounts |-> {}]
    /\ cache = [k \in Keys |-> NoEntry]
    /\ current_client_index = 0
    /\ index_poisoned = FALSE
    /\ selections = NoSelection
    /\ task = [p \in Tasks |-> IdleTask]
    /\ exhausted = 0

InitOP ==
    /\ NoRpcPool
    /\ NoEngine
    /\ capacity \in 0..MaxCapacity
    /\ objects = ObjectPool_new(capacity).objects
    /\ factory_calls = ObjectPool_new(capacity).factory_calls
    /\ handle = [h \in Handles |-> NoHandle]
    /\ thr = [t \in Threads |-> IdleThread]
    /\ users \in {{1}, Threads}

(* the slots holding no PooledObject *)
FreeSlots == {h \in Handles : ~handle[h].live}

(* the threads that have obtained an instance and not yet built its PooledObject *)
Acquiring == {t \in Threads : thr[t].pc = "acquired"}

(* acquire(), lines 35-38: lock, pop or create, unlock *)
AcquireLock(t) ==
    /\ t \in users
    /\ thr[t].pc = "idle"
    /\ Cardinality(FreeSlots) > Cardinality(Acquiring)
    /\ LET r == pop_or_create(objects, factory_calls)
       IN  /\ objects' = r.objects
           /\ factory_calls' = r.factory_calls
           /\ thr' = [thr EXCEPT ![t] = [pc |-> "acquired", obj |-> r.obj, h |-> 0]]
    /\ UNCHANGED <<rpcVars, engVars, capacity, handle, users>>

(* acquire(), lines 40-43: the PooledObject is built and returned *)
AcquireReturn(t) ==
    /\ thr[t].pc = "acquired"
    /\ LET h == CHOOSE x \in FreeSlots : \A y \in FreeSlots : x <= y
       IN  handle' = [handle EXCEPT ![h] = PooledObject(t, thr[t].obj)]
    /\ thr' = [thr EXCEPT ![t] = IdleThread]
    /\ UNCHANGED <<rpcVars, engVars, capacity, objects, factory_calls, users>>

(* drop(), line 81: `self.obj.take()` *)
DropTake(t, h) ==
    /\ t \in users
    /\ thr[t].pc = "idle"
    /\ handle[h].live
    /\ handle[h].owner = t
    /\ IF handle[h].obj # NoObj
       THEN /\ thr' = [thr EXCEPT ![t] = [pc |-> "taken", obj |-> handle[h].obj, h |-> h]]
            /\ handle' = [handle EXCEPT ![h].obj = NoObj]
       ELSE /\ handle' = [handle EXCEPT ![h] = NoHandle]
            /\ UNCHANGED thr
    /\ UNCHANGED <<rpcVars, engVars, capacity, objects, factory_calls, users>>

(* faulty variant: an instance that would exceed the initial capacity is
   discarded *)
DropPush_Bounded(t) ==
    /\ thr[t].pc = "taken"
    /\ objects' = IF size(objects) < capacity
                  THEN push_back(objects, thr[t].obj) ELSE objects
    /\ handle' = [handle EXCEPT ![thr[t].h] = NoHandle]
    /\ thr' = [thr EXCEPT ![t] = IdleThread]
    /\ UNCHANGED <<rpcVars, engVars, capacity, factory_calls, users>>

(* drop(), lines 82-83: lock, push, unlock; the PooledObject is gone *)
DropPush(t) ==
    /\ thr[t].pc = "taken"
    /\ objects' = push_back(objects, thr[t].obj)
    /\ handle' = [handle EXCEPT ![thr[t].h] = NoHandle]
    /\ thr' = [thr EXCEPT ![t] = IdleThread]
    /\ UNCHANGED <<rpcVars, engVars, capacity, factory_calls, users>>

NextOP ==
    \/ \E t \in Threads : AcquireLock(t)
    \/ \E t \in Threads : AcquireReturn(t)
    \/ \E t \in Threads, h \in Handles : DropTake(t, h)
    \/ \E t \in Threads : DropPush(t)

SpecOP == InitOP /\ [][NextOP]_vars

----------------------------------------------------------------------------
(* SpecEng: run_bot with its refresher and strategy tasks.  The collaborators
   (the RPC client, build_and_send_transaction, the database) answer or fail
   as `env` allows.  The guard of a tokio Mutex is never held across an await
   by these tasks, so a lock section is one step; each strategy owns its
   mint_pool_data and its lock. *)

InitEng ==
    /\ NoRpcPool
    /\ NoObjectPool
    /\ main = [pc |-> "start", i |-> 1, result |-> NoResult]
    /\ cached_blockhash = NoHash
    /\ refresher = NoRefresher
    /\ strategy = [m \in Mints |-> NoStrategy]
    /\ chain = 1
    /\ env \in [db : BOOLEAN, build : [Mints -> {"ok", "fail", "any"}]]
    /\ should_shutdown = FALSE
    /\ token_lock = Unlocked
    /\ pool_data_lock = [m \in Mints |-> Unlocked]
    /\ hist = NoHistory

(* run_bot returns Err(e) *)
Return(e) == [main EXCEPT !.pc = "returned", !.result = Err(e)]

(* lines 30-78: the configuration, the optional database and Jito client, the
   RPC clients and the wallet are set up *)
LoadOk ==
    /\ main.pc = "start"
    /\ main' = [main EXCEPT !.pc = "initial_blockhash"]
    /\ UNCHANGED <<rpcVars, objVars, cached_blockhash, refresher, strategy, chain, env,
                   should_shutdown, token_lock, pool_data_lock, hist>>

(* lines 30, 51, 77: Config::load or load_keypair fails *)
LoadErr(kind) ==
    /\ main.pc = "start"
    /\ main' = Return(StartupError(kind, "startup"))
    /\ UNCHANGED <<rpcVars, objVars, cached_blockhash, refresher, strategy, chain, env,
                   should_shutdown, token_lock, pool_data_lock, hist>>

(* lines 80-91: the initial blockhash is fetched and stored, the refresher
   task is spawned *)
InitialBlockhashOk ==
    /\ main.pc = "initial_blockhash"
    /\ cached_blockhash' = chain
    /\ refresher' = [pc |-> "fetch", blockhash |-> NoHash]
    /\ main' = [main EXCEPT !.pc = "prepare", !.i = 1]
    /\ hist' = [hist EXCEPT !.refreshers = @ + 1]
    /\ UNCHANGED <<rpcVars, objVars, strategy, chain, env,
                   should_shutdown, token_lock, pool_data_lock>>

(* faulty variant: the refresher is spawned before the initial fetch *)
InitialBlockhashErr_AfterSpawn ==
    /\ main.pc = "initial_blockhash"
    /\ main' = Return(InitialBlockhashError)
    /\ refresher' = [pc |-> "fetch", blockhash |-> NoHash]
    /\ hist' = [hist EXCEPT !.refreshers = @ + 1]
    /\ UNCHANGED <<rpcVars, objVars, cached_blockhash, strategy, chain, env,
                   should_shutdown, token_lock, pool_data_lock>>

(* lines 80-82: the initial fetch fails and `?` returns the error *)
InitialBlockhashErr ==
    /\ main.pc = "initial_blockhash"
    /\ main' = Return(InitialBlockhashError)
    /\ UNCHANGED <<rpcVars, objVars, cached_blockhash, refresher, strategy, chain, env,
                   should_shutdown, token_lock, pool_data_lock, hist>>

(* where run_bot goes after the mint at index i of a loop over the list *)
after_mint(i, next_loop) ==
    IF i < Len(mint_config_list)
    THEN [main EXCEPT !.i = i + 1]
    ELSE [main EXCEPT !.pc = next_loop, !.i = 1]

(* lines 93-167, one mint: its token account exists or is created *)
PrepareMintOk ==
    /\ main.pc = "prepare"
    /\ main' = after_mint(main.i, "spawn")
    /\ UNCHANGED <<rpcVars, objVars, cached_blockhash, refresher, strategy, chain, env,
                   should_shutdown, token_lock, pool_data_lock, hist>>

(* lines 95-106, 138, 158-162: the mint is invalid, an RPC call or the
   creation of the token account fails *)
PrepareMintErr(kind) ==
    /\ main.pc = "prepare"
    /\ main' = Return(StartupError(kind, "mint"))
    /\ UNCHANGED <<rpcVars, objVars, cached_blockhash, refresher, strategy, chain, env,
                   should_shutdown, token_lock, pool_data_lock, hist>>

(* faulty variant: the loop over the mints spawns the task of a mint twice *)
SpawnStrategy_Twice ==
    /\ main.pc = "spawn"
    /\ strategy' = [strategy EXCEPT ![mint_config_list[main.i]] =
                        [NoStrategy EXCEPT !.pc = "read"]]
    /\ main' = IF hist.loops[mint_config_list[main.i]] = 0
               THEN main ELSE after_mint(main.i, "running")
    /\ hist' = [hist EXCEPT !.loops[mint_config_list[main.i]] = @ + 1]
    /\ UNCHANGED <<rpcVars, objVars, cached_blockhash, refresher, chain, env,
                   should_shutdown, token_lock, pool_data_lock>>

(* lines 169-295, one mint: its pool data is initialized and its strategy
   task is spawned *)
SpawnStrategy ==
    /\ main.pc = "spawn"
    /\ strategy' = [strategy EXCEPT ![mint_config_list[main.i]] =
                        [NoStrategy EXCEPT !.pc = "read"]]
    /\ main' = after_mint(main.i, "running")
    /\ hist' = [hist EXCEPT !.loops[mint_config_list[main.i]] = @ + 1]
    /\ UNCHANGED <<rpcVars, objVars, cached_blockhash, refresher, chain, env,
                   should_shutdown, token_lock, pool_data_lock>>

(* lines 172-187, 196-197: initialize_pool_data (or the keypair copy) fails *)
InitPoolDataErr ==
    /\ main.pc = "spawn"
    /\ main' = Return(StartupError("Other", "initialize_pool_data"))
    /\ UNCHANGED <<rpcVars, objVars, cached_blockhash, refresher, strategy, chain, env,
                   should_shutdown, token_lock, pool_data_lock, hist>>

(* src/src/main.rs:47: run_bot returned an error, main returns it and the
   runtime drops the spawned tasks with the guards and calls they hold *)
Shutdown ==
    /\ main.pc = "returned"
    /\ Running(refresher) \/ \E m \in Mints : Running(strategy[m])
    /\ refresher' = IF Running(refresher)
                    THEN [NoRefresher EXCEPT !.pc = "cancelled"] ELSE refresher
    /\ strategy' = [m \in Mints |->
                        IF Running(strategy[m])
                        THEN [NoStrategy EXCEPT !.pc = "cancelled"] ELSE strategy[m]]
    /\ token_lock' = Unlocked
    /\ pool_data_lock' = [m \in Mints |-> Unlocked]
    /\ hist' = [hist EXCEPT !.in_flight = [m \in Mints |-> 0]]
    /\ UNCHANGED <<rpcVars, objVars, main, cached_blockhash, chain, env, should_shutdown>>

(* blockhash_refresher, line 309: get_latest_blockhash() answers *)
RefreshFetchOk ==
    /\ refresher.pc = "fetch"
    /\ refresher' = [pc |-> "store", blockhash |-> chain]
    /\ hist' = [hist EXCEPT !.fetched = chain]
    /\ UNCHANGED <<rpcVars, objVars, main, cached_blockhash, strategy, chain, env,
                   should_shutdown, token_lock, pool_data_lock>>

(* blockhash_refresher, line 311: cached_blockhash.lock().await returns the
   guard once no task holds it *)
RefreshLock ==
    /\ refresher.pc = "store"
    /\ token_lock = Unlocked
    /\ token_lock' = RefresherTask
    /\ refresher' = [refresher EXCEPT !.pc = "assign"]
    /\ UNCHANGED <<rpcVars, objVars, main, cached_blockhash, strategy, chain, env,
                   should_shutdown, pool_data_lock, hist>>

(* blockhash_refresher, lines 312-313 and 319: the value is assigned, the
   guard is dropped, then the task sleeps *)
RefreshStore ==
    /\ refresher.pc = "assign"
    /\ cached_blockhash' = refresher.blockhash
    /\ refresher' = [pc |-> "sleep", blockhash |-> NoHash]
    /\ token_lock' = Unlocked
    /\ UNCHANGED <<rpcVars, objVars, main, strategy, chain, env,
                   should_shutdown, pool_data_lock, hist>>

(* faulty variant: a failed refresh discards the cached value *)
RefreshFetchErr_DropsToken ==
    /\ refresher.pc = "fetch"
    /\ refresher' = [pc |-> "sleep", blockhash |-> NoHash]
    /\ cached_blockhash' = NoHash
    /\ UNCHANGED <<rpcVars, objVars, main, strategy, chain, env,
                   should_shutdown, token_lock, pool_data_lock, hist>>

(* blockhash_refresher, lines 314-319: the fetch fails, the error is logged,
   then the task sleeps *)
RefreshFetchErr ==
    /\ refresher.pc = "fetch"
    /\ refresher' = [pc |-> "sleep", blockhash |-> NoHash]
    /\ UNCHANGED <<rpcVars, objVars, main, cached_blockhash, strategy, chain, env,
                   should_shutdown, token_lock, pool_data_lock, hist>>

(* blockhash_refresher, line 319: the sleep ends *)
RefreshWake ==
    /\ refresher.pc = "sleep"
    /\ refresher' = [pc |-> "fetch", blockhash |-> NoHash]
    /\ UNCHANGED <<rpcVars, objVars, main, cached_blockhash, strategy, chain, env,
                   should_shutdown, token_lock, pool_data_lock, hist>>

(* the network produces a new blockhash *)
ChainAdvance ==
    /\ chain < MaxBlockhash
    /\ chain' = chain + 1
    /\ UNCHANGED <<rpcVars, objVars, main, cached_blockhash, refresher, strategy, env,
                   should_shutdown, token_lock, pool_data_lock, hist>>

(* strategy loop, line 245: cached_blockhash.lock().await returns the guard
   once no task holds it *)
LockBlockhash(m) ==
    /\ strategy[m].pc = "read"
    /\ token_lock = Unlocked
    /\ token_lock' = m
    /\ strategy' = [strategy EXCEPT ![m] = [@ EXCEPT !.pc = "copy"]]
    /\ UNCHANGED <<rpcVars, objVars, main, cached_blockhash, refresher, chain, env,
                   should_shutdown, pool_data_lock, hist>>

(* faulty variant: the blockhash is read in the first iteration only *)
ReadBlockhash_Once(m) ==
    /\ strategy[m].pc = "copy"
    /\ strategy' = [strategy EXCEPT ![m] =
            [@ EXCEPT !.pc = "lock",
                      !.latest_blockhash = IF strategy[m].outcome = "none"
                                           THEN cached_blockhash ELSE @]]
    /\ token_lock' = Unlocked
    /\ UNCHANGED <<rpcVars, objVars, main, cached_blockhash, refresher, chain, env,
                   should_shutdown, pool_data_lock, hist>>

(* faulty variant: the strategy takes the blockhash out of the cache *)
ReadBlockhash_Takes(m) ==
    /\ strategy[m].pc = "copy"
    /\ strategy' = [strategy EXCEPT ![m] =
            [@ EXCEPT !.pc = "lock", !.latest_blockhash = cached_blockhash]]
    /\ cached_blockhash' = NoHash
    /\ token_lock' = Unlocked
    /\ UNCHANGED <<rpcVars, objVars, main, refresher, chain, env,
                   should_shutdown, pool_data_lock, hist>>

(* faulty variant: the guard of the blockhash lives until the end of the
   iteration's call *)
ReadBlockhash_KeepsGuard(m) ==
    /\ strategy[m].pc = "copy"
    /\ strategy' = [strategy EXCEPT ![m] =
            [@ EXCEPT !.pc = "lock", !.latest_blockhash = cached_blockhash]]
    /\ UNCHANGED <<rpcVars, objVars, main, cached_blockhash, refresher, chain, env,
                   should_shutdown, token_lock, pool_data_lock, hist>>

(* strategy loop, lines 246-247: the cached blockhash is copied and the guard
   is dropped at the end of its block *)
ReadBlockhash(m) ==
    /\ strategy[m].pc = "copy"
    /\ strategy' = [strategy EXCEPT ![m] =
            [@ EXCEPT !.pc = "lock", !.latest_blockhash = cached_blockhash]]
    /\ token_lock' = Unlocked
    /\ UNCHANGED <<rpcVars, objVars, main, cached_blockhash, refresher, chain, env,
                   should_shutdown, pool_data_lock, hist>>

(* strategy loop, lines 250-251: mint_pool_data.lock().await returns the
   guard and build_and_send_transaction is called with it *)
LockPoolData(m) ==
    /\ strategy[m].pc = "lock"
    /\ pool_data_lock[m] = Unlocked
    /\ pool_data_lock' = [pool_data_lock EXCEPT ![m] = m]
    /\ strategy' = [strategy EXCEPT ![m] = [@ EXCEPT !.pc = "build"]]
    /\ hist' = [hist EXCEPT !.in_flight[m] = @ + 1]
    /\ UNCHANGED <<rpcVars, objVars, main, cached_blockhash, refresher, chain, env,
                   should_shutdown, token_lock>>

(* faulty variant: the next iteration starts without the sleep *)
after_signatures_SkipsSleep(sigs) == IF sigs = << >> THEN "read" ELSE "log"

(* where the loop goes when `sigs` are the signatures still to be handled *)
after_signatures(sigs) == IF sigs = << >> THEN "sleep" ELSE "log"

(* strategy loop, lines 250-267: build_and_send_transaction returns Ok(sigs)
   and the guard of mint_pool_data is dropped at the end of its block *)
BuildOk(m, sigs) ==
    /\ strategy[m].pc = "build"
    /\ env.build[m] \in {"ok", "any"}
    /\ pool_data_lock' = [pool_data_lock EXCEPT ![m] = Unlocked]
    /\ hist' = [hist EXCEPT !.in_flight[m] = @ - 1]
    /\ strategy' = [strategy EXCEPT ![m] =
            [@ EXCEPT !.pc = after_signatures(sigs), !.signatures = sigs,
                      !.latest_blockhash = NoHash,
                      !.outcome = "Ok", !.log_failed = FALSE]]
    /\ UNCHANGED <<rpcVars, objVars, main, cached_blockhash, refresher, chain, env,
                   should_shutdown, token_lock>>

(* faulty variant: the error of an iteration ends the task *)
BuildErr_EndsLoop(m) ==
    /\ strategy[m].pc = "build"
    /\ env.build[m] \in {"fail", "any"}
    /\ pool_data_lock' = [pool_data_lock EXCEPT ![m] = Unlocked]
    /\ hist' = [hist EXCEPT !.in_flight[m] = @ - 1]
    /\ strategy' = [strategy EXCEPT ![m] = [NoStrategy EXCEPT !.pc = "cancelled"]]
    /\ UNCHANGED <<rpcVars, objVars, main, cached_blockhash, refresher, chain, env,
                   should_shutdown, token_lock>>

(* faulty variant: the error of an iteration reaches run_bot, which returns it *)
BuildErr_Aborts(m) ==
    /\ strategy[m].pc = "build"
    /\ env.build[m] \in {"fail", "any"}
    /\ pool_data_lock' = [pool_data_lock EXCEPT ![m] = Unlocked]
    /\ hist' = [hist EXCEPT !.in_flight[m] = @ - 1]
    /\ strategy' = [strategy EXCEPT ![m] =
            [@ EXCEPT !.pc = "sleep", !.signatures = << >>,
                      !.latest_blockhash = NoHash,
                      !.outcome = "Err", !.log_failed = FALSE]]
    /\ main' = Return(StartupError("TransactionSendError", "build_and_send_transaction"))
    /\ UNCHANGED <<rpcVars, objVars, cached_blockhash, refresher, chain, env,
                   should_shutdown, token_lock>>

(* strategy loop, lines 250-264 and 284-289: build_and_send_transaction
   returns Err(e), which is logged *)
BuildErr(m) ==
    /\ strategy[m].pc = "build"
    /\ env.build[m] \in {"fail", "any"}
    /\ pool_data_lock' = [pool_data_lock EXCEPT ![m] = Unlocked]
    /\ hist' = [hist EXCEPT !.in_flight[m] = @ - 1]
    /\ strategy' = [strategy EXCEPT ![m] =
            [@ EXCEPT !.pc = "sleep", !.signatures = << >>,
                      !.latest_blockhash = NoHash,
                      !.outcome = "Err", !.log_failed = FALSE]]
    /\ UNCHANGED <<rpcVars, objVars, main, cached_blockhash, refresher, chain, env,
                   should_shutdown, token_lock>>

(* the test of lines 270-271: the signature is logged *)
is_logged(signature, db) == signature # "default" /\ db

(* strategy loop, lines 268-281, one signature that is logged: log_trade
   returns Ok (ok) or Err (~ok); `let _ =` drops the result *)
LogTrade(m, ok) ==
    /\ strategy[m].pc = "log"
    /\ is_logged(Head(strategy[m].signatures), env.db)
    /\ strategy' = [strategy EXCEPT ![m] =
            [@ EXCEPT !.pc = after_signatures(Tail(strategy[m].signatures)),
                      !.signatures = Tail(@),
                      !.log_failed = @ \/ ~ok]]
    /\ UNCHANGED <<rpcVars, objVars, main, cached_blockhash, refresher, chain, env,
                   should_shutdown, token_lock, pool_data_lock, hist>>

(* strategy loop, lines 268-281, one signature that is not logged *)
SkipSignature(m) ==
    /\ strategy[m].pc = "log"
    /\ ~is_logged(Head(strategy[m].signatures), env.db)
    /\ strategy' = [strategy EXCEPT ![m] =
            [@ EXCEPT !.pc = after_signatures(Tail(strategy[m].signatures)),
                      !.signatures = Tail(@)]]
    /\ UNCHANGED <<rpcVars, objVars, main, cached_blockhash, refresher, chain, env,
                   should_shutdown, token_lock, pool_data_lock, hist>>

(* strategy loop, line 292: the sleep ends and the next iteration starts *)
StrategyWake(m) ==
    /\ strategy[m].pc = "sleep"
    /\ strategy' = [strategy EXCEPT ![m] = [@ EXCEPT !.pc = "read"]]
    /\ UNCHANGED <<rpcVars, objVars, main, cached_blockhash, refresher, chain, env,
                   should_shutdown, token_lock, pool_data_lock, hist>>

(* the steps of the strategy task of mint m *)
StrategyStep(m) ==
    \/ LockBlockhash(m)
    \/ ReadBlockhash(m)
    \/ LockPoolData(m)
    \/ \E sigs \in SignatureLists : BuildOk(m, sigs)
    \/ BuildErr(m)
    \/ \E ok \in BOOLEAN : LogTrade(m, ok)
    \/ SkipSignature(m)
    \/ StrategyWake(m)

(* the steps of the refresher task *)
RefresherStep ==
    \/ RefreshFetchOk
    \/ RefreshLock
    \/ RefreshStore
    \/ RefreshFetchErr
    \/ RefreshWake

NextEng ==
    \/ LoadOk
    \/ \E kind \in {"ConfigError", "WalletError"} : LoadErr(kind)
    \/ InitialBlockhashOk
    \/ InitialBlockhashErr
    \/ PrepareMintOk
    \/ \E kind \in {"InvalidPublicKey", "AccountFetchError", "SolanaClientError",
                     "WalletError"} : PrepareMintErr(kind)
    \/ SpawnStrategy
    \/ InitPoolDataErr
    \/ Shutdown
    \/ RefresherStep
    \/ ChainAdvance
    \/ \E m \in Mints : StrategyStep(m)

SpecEng == InitEng /\ [][NextEng]_vars

(* a database is configured; build_and_send_transaction always succeeds for
   one mint and always fails for the other *)
InitEngFair ==
    /\ InitEng
    /\ env.db
    /\ \A m \in Mints : env.build[m] \in {"ok", "fail"}
    /\ \E a, b \in Mints : env.build[a] # env.build[b]

(* the runtime schedules every task that can take a step, and a tokio Mutex
   hands its guard to the waiting tasks in the order they asked for it: a
   task whose next step is enabled again and again eventually takes it *)
SpecEngFair ==
    /\ InitEngFair
    /\ [][NextEng]_vars
    /\ \A m \in Mints : SF_vars(StrategyStep(m))
    /\ SF_vars(RefresherStep)

----------------------------------------------------------------------------
(* SpecLegacy: run_bot of src/src/bot.rs, the variant without database and
   Jito client.  Its startup and its refresher are those of
   src/src/engine/bot.rs; its strategy loop takes the guard of mint_pool_data
   as a local of the loop body, so that the guard lives until the body ends. *)

InitLegacy ==
    /\ InitEng
    /\ ~env.db

(* src/src/bot.rs, lines 233-251: build_and_send_transaction returns
   Ok(signatures), which are written to the log; the guard stays alive *)
LegacyBuildOk(m) ==
    /\ strategy[m].pc = "build"
    /\ env.build[m] \in {"ok", "any"}
    /\ hist' = [hist EXCEPT !.in_flight[m] = @ - 1]
    /\ strategy' = [strategy EXCEPT ![m] =
            [@ EXCEPT !.pc = "sleep", !.signatures = << >>,
                      !.latest_blockhash = NoHash,
                      !.outcome = "Ok", !.log_failed = FALSE]]
    /\ UNCHANGED <<rpcVars, objVars, main, cached_blockhash, refresher, chain, env,
                   should_shutdown, token_lock, pool_data_lock>>

(* src/src/bot.rs, lines 233-242 and 252-257: build_and_send_transaction
   returns Err(e), which is logged; the guard stays alive *)
LegacyBuildErr(m) ==
    /\ strategy[m].pc = "build"
    /\ env.build[m] \in {"fail", "any"}
    /\ hist' = [hist EXCEPT !.in_flight[m] = @ - 1]
    /\ strategy' = [strategy EXCEPT ![m] =
            [@ EXCEPT !.pc = "sleep", !.signatures = << >>,
                      !.latest_blockhash = NoHash,
                      !.outcome = "Err", !.log_failed = FALSE]]
    /\ UNCHANGED <<rpcVars, objVars, main, cached_blockhash, refresher, chain, env,
                   should_shutdown, token_lock, pool_data_lock>>

(* src/src/bot.rs, lines 260-261: the sleep ends, the loop body ends and drops
   the guard, the next iteration starts *)
LegacyWake(m) ==
    /\ strategy[m].pc = "sleep"
    /\ pool_data_lock' = [pool_data_lock EXCEPT ![m] = Unlocked]
    /\ strategy' = [strategy EXCEPT ![m] = [@ EXCEPT !.pc = "read"]]
    /\ UNCHANGED <<rpcVars, objVars, main, cached_blockhash, refresher, chain, env,
                   should_shutdown, token_lock, hist>>

(* the steps of the strategy task of mint m in src/src/bot.rs *)
LegacyStep(m) ==
    \/ LockBlockhash(m)
    \/ ReadBlockhash(m)
    \/ LockPoolData(m)
    \/ LegacyBuildOk(m)
    \/ LegacyBuildErr(m)
    \/ LegacyWake(m)

NextLegacy ==
    \/ LoadOk
    \/ \E kind \in {"ConfigError", "WalletError"} : LoadErr(kind)
    \/ InitialBlockhashOk
    \/ InitialBlockhashErr
    \/ PrepareMintOk
    \/ \E kind \in {"InvalidPublicKey", "AccountFetchError", "SolanaClientError",
                     "WalletError"} : PrepareMintErr(kind)
    \/ SpawnStrategy
    \/ InitPoolDataErr
    \/ Shutdown
    \/ RefresherStep
    \/ ChainAdvance
    \/ \E m \in Mints : LegacyStep(m)

SpecLegacy == InitLegacy /\ [][NextLegacy]_vars

----------------------------------------------------------------------------
(* SpecShutdown: run_bot next to a ShutdownHandler whose trigger_shutdown()
   may be called at any time. *)

(* ShutdownHandler::trigger_shutdown, lines 47-50: should_shutdown.store(true) *)
TriggerShutdown ==
    /\ should_shutdown' = TRUE
    /\ UNCHANGED <<rpcVars, objVars, main, cached_blockhash, refresher, strategy, chain, env,
                   token_lock, pool_data_lock, hist>>

NextShutdown ==
    \/ NextEng
    \/ TriggerShutdown

SpecShutdown == InitEngFair /\ [][NextShutdown]_vars

----------------------------------------------------------------------------
(* Claims about get_account_with_retry, checked under Spec.  A step changes
   task[p] exactly when it is a step of the invocation p. *)

Stepped(p) == task'[p] # task[p]

(* a step in which p calls get_account_with_retry(k) *)
Calls(p, k) == task[p].pc \in {"idle", "done"} /\ Stepped(p) /\ task'[p].key = k

(* the cache holds an unexpired entry for k *)
Unexpired(k) == cache[k] # NoEntry /\ cache[k].expires_at > now

(* C1: an invocation makes at most MAX_RPC_RETRIES endpoint calls, one per
   step; once an attempt has succeeded the invocation records the success,
   stores the account and returns Ok of that attempt's account, making no
   further endpoint call. *)
C1_Step ==
    \A p \in Tasks :
        /\ task'[p].fetches <= MAX_RPC_RETRIES
        /\ task'[p].fetches # task[p].fetches =>
                \/ task[p].pc = "fetch" /\ task'[p].fetches = task[p].fetches + 1
                \/ task[p].pc = "done" /\ task'[p].fetches = 0
        /\ (task[p].pc = "fetch" /\ task'[p].pc = "record_success") =>
                task'[p].account \in Values
        /\ (task[p].pc = "record_success" /\ Stepped(p)) =>
                /\ task'[p].pc = "add_to_cache"
                /\ task'[p].account = task[p].account
                /\ task'[p].fetches = task[p].fetches
        /\ (task[p].pc = "add_to_cache" /\ Stepped(p)) =>
                /\ task'[p].pc = "done"
                /\ task'[p].result = Ok(task[p].account)
                /\ task'[p].fetches = task[p].fetches

C1_RetryBound == [][C1_Step]_vars

C1_Witness ==
    \E p \in Tasks :
        /\ task[p].pc = "done"
        /\ task[p].result.kind = "Ok"
        /\ task[p].fetches = MAX_RPC_RETRIES

(* C2: a call for a key whose cache entry is unexpired returns Ok of the
   cached data in the same step, with no endpoint call, and leaves the
   breaker (state, failure_count, last_failure_time), the round-robin index
   and the cache unchanged, whatever the breaker's state. *)
C2_Step ==
    \A p \in Tasks, k \in Keys :
        (Calls(p, k) /\ Unexpired(k)) =>
            /\ task'[p].pc = "done"
            /\ task'[p].result = Ok(cache[k].data)
            /\ task'[p].fetches = 0
            /\ cb' = cb
            /\ current_client_index' = current_client_index
            /\ cache' = cache

C2_CacheHit == [][C2_Step]_vars

C2_Witness ==
    \E p \in Tasks :
        /\ task[p].pc = "done"
        /\ task[p].result.kind = "Ok"
        /\ task[p].fetches = 0
        /\ cb.state = "Open"

(* C3: when can_attempt() returns false at the gate, the invocation returns
   the retryable RpcError "Circuit breaker is OPEN" in that step: no endpoint
   call was made, no attempt was started, and the breaker, the cache and the
   round-robin index are unchanged.  When it returns true the invocation goes
   on to its first attempt. *)
C3_Step ==
    \A p \in Tasks :
        (task[p].pc = "gate" /\ Stepped(p)) =>
            IF can_attempt(cb, now).ret
            THEN task'[p].pc = "select" /\ task'[p].attempt = 0
            ELSE /\ task'[p].pc = "done"
                 /\ task'[p].result = Err(CircuitOpenError)
                 /\ task'[p].result.error.kind = "RpcError"
                 /\ task'[p].result.error.message = "Circuit breaker is OPEN"
                 /\ is_retryable(task'[p].result.error)
                 /\ task'[p].fetches = 0
                 /\ task[p].attempt = 0
                 /\ cb' = cb
                 /\ cache' = cache
                 /\ current_client_index' = current_client_index

C3_BreakerGate == [][C3_Step]_vars

C3_Witness ==
    \E p \in Tasks :
        /\ task[p].pc = "done"
        /\ task[p].result = Err(CircuitOpenError)
        /\ cb.state = "Open"
        /\ cb.failure_count = POOL_FAILURE_THRESHOLD

(* C4: an invocation reaches record_failure() only after MAX_RPC_RETRIES
   failed endpoint calls; its attempts leave the breaker alone, the one
   record_failure() adds 1 to failure_count, the invocation returns the error
   of its last endpoint call, which is retryable, and no step of the
   invocation changes the cache. *)
C4_Step ==
    \A p \in Tasks :
        /\ (task[p].pc \in {"select", "fetch", "sleep"} /\ Stepped(p)) =>
                (cb' = cb /\ cache' = cache)
        /\ (task[p].pc = "gate" /\ Stepped(p)) => cache' = cache
        /\ task'[p].pc = "record_failure" => task'[p].fetches = MAX_RPC_RETRIES
        /\ (task[p].pc = "record_failure" /\ Stepped(p)) =>
                /\ cb'.failure_count = cb.failure_count + 1
                /\ cb'.last_failure_time = now
                /\ task'[p].pc = "done"
                /\ task'[p].result = Err(task[p].seen_error)
                /\ task[p].seen_error = AccountFetchError(task[p].key, MAX_RPC_RETRIES)
                /\ is_retryable(task'[p].result.error)
                /\ cache' = cache

C4_ExhaustedRetries == [][C4_Step]_vars

C4_Witness ==
    \E p \in Tasks :
        /\ task[p].pc = "done"
        /\ task[p].result.kind = "Err"
        /\ task[p].result.error.kind = "AccountFetchError"
        /\ task[p].fetches = MAX_RPC_RETRIES
        /\ cb.failure_count = 2
        /\ \E k \in Keys : cache[k] # NoEntry

(* C5: after a successful attempt the invocation calls record_success(), which
   leaves the breaker Closed with failure_count 0, then stores the account
   under the requested key with expiry now + ttl and returns Ok of it; a call
   for a key made before the expiry of its entry returns the stored account
   without an endpoint call. *)
C5_Step ==
    \A p \in Tasks :
        /\ (task[p].pc = "record_success" /\ Stepped(p)) =>
                /\ cb'.state = "Closed"
                /\ cb'.failure_count = 0
                /\ task'[p].pc = "add_to_cache"
        /\ (task[p].pc = "add_to_cache" /\ Stepped(p)) =>
                /\ cache' = [cache EXCEPT ![task[p].key] =
                                [data |-> task[p].account, expires_at |-> now + cache_ttl]]
                /\ task'[p].pc = "done"
                /\ task'[p].result = Ok(task[p].account)
        /\ \A k \in Keys :
                (Calls(p, k) /\ cache[k] # NoEntry /\ now < cache[k].expires_at) =>
                    /\ task'[p].pc = "done"
                    /\ task'[p].result = Ok(cache[k].data)
                    /\ task'[p].fetches = 0

C5_SuccessfulFetch == [][C5_Step]_vars

C5_Witness ==
    \E p \in Tasks :
        /\ task[p].pc = "done"
        /\ task[p].result.kind = "Ok"
        /\ task[p].fetches = 0
        /\ cache[task[p].key] = [data |-> task[p].result.value, expires_at |-> now + 1]
        /\ cb.state = "Closed"
        /\ cb.failure_count = 0
        /\ cb.last_failure_time # None

----------------------------------------------------------------------------
(* Claims about the CircuitBreaker, checked under SpecCB.  In a state with
   op = "m" the last method called is m, called at time called_at on the
   breaker `before`; it left the breaker `cb`. *)

(* C6: with threshold F >= 1, a breaker that has seen fewer than F
   record_failure() calls since construction or the last record_success() is
   Closed and can_attempt() returns true on it; right after the F-th such call
   it is Open. *)
C6_BreakerOpening ==
    cb.failure_threshold >= 1 =>
        /\ streak < cb.failure_threshold =>
                /\ cb.state = "Closed"
                /\ can_attempt(cb, now).ret
                /\ can_attempt(cb, now).cb = cb
        /\ (op = "record_failure" /\ streak = cb.failure_threshold) =>
                cb.state = "Open"

C6_Witness ==
    /\ cb.failure_threshold = 3
    /\ op = "record_failure"
    /\ streak = 3
    /\ before.state = "Closed"
    /\ cb.state = "Open"

(* C7: record_success() called in any state with any failure_count leaves
   state Closed and failure_count 0. *)
C7_BreakerReset ==
    op = "record_success" => (cb.state = "Closed" /\ cb.failure_count = 0)

C7_Witness ==
    /\ op = "record_success"
    /\ before.state = "HalfOpen"
    /\ before.failure_count > before.failure_threshold
    /\ cb.state = "Closed"
    /\ cb.failure_count = 0

(* C8: can_attempt() on an Open breaker returns false and changes nothing
   while less than the timeout has elapsed since last_failure_time; once the
   timeout has elapsed it returns true and moves to HalfOpen.  HalfOpen is
   entered only that way, and at most once after each record_failure(): the
   later calls find HalfOpen and change nothing. *)
C8_BreakerRecovery ==
    /\ (op = "can_attempt" /\ before.state = "Open") =>
            IF called_at - before.last_failure_time < before.timeout
            THEN ret = FALSE /\ cb = before
            ELSE ret = TRUE /\ cb = [before EXCEPT !.state = "HalfOpen"]
    /\ (op = "can_attempt" /\ before.state = "HalfOpen") =>
            (ret = TRUE /\ cb = before)
    /\ (cb.state = "HalfOpen" /\ before.state # "HalfOpen") =>
            (op = "can_attempt" /\ before.state = "Open")
    /\ probes <= 1
    /\ cb.state = "HalfOpen" => probes = 1

C8_Witness ==
    /\ op = "can_attempt"
    /\ before.state = "Open"
    /\ before.timeout = 2
    /\ called_at - before.last_failure_time = 2
    /\ ret = TRUE
    /\ cb.state = "HalfOpen"
    /\ probes = 1

(* C9 as stated: record_failure() in HalfOpen moves the breaker to Open,
   refreshes last_failure_time and leaves failure_count unchanged. *)
C9_Original ==
    (op = "record_failure" /\ before.state = "HalfOpen") =>
        /\ cb.state = "Open"
        /\ cb.last_failure_time = called_at
        /\ cb.failure_count = before.failure_count

(* C9 amended: record_failure() in HalfOpen moves the breaker to Open,
   refreshes last_failure_time and increments failure_count by one, so that it
   is above the threshold (3 becomes 4 with threshold 3). *)
C9_ProbeFailure ==
    (op = "record_failure" /\ before.state = "HalfOpen") =>
        /\ cb.state = "Open"
        /\ cb.last_failure_time = called_at
        /\ cb.failure_count = before.failure_count + 1
        /\ cb.failure_count > cb.failure_threshold

C9_Witness ==
    /\ op = "record_failure"
    /\ before.state = "HalfOpen"
    /\ before.failure_threshold = 3
    /\ before.failure_count = 3
    /\ before.last_failure_time < called_at
    /\ cb.state = "Open"
    /\ cb.failure_count = 4

(* C10 as stated: with threshold 3 and timeout 0, after three record_failure()
   calls the breaker is Open, and a can_attempt() made before the clock has
   advanced returns false and leaves it Open. *)
C10_Original ==
    (cb.failure_threshold = 3 /\ cb.timeout = 0 /\ streak = 3) =>
        /\ op = "record_failure" => cb.state = "Open"
        /\ (op = "can_attempt" /\ before.state = "Open"
                /\ called_at = before.last_failure_time) =>
                (ret = FALSE /\ cb.state = "Open")

(* C10 amended: with threshold 3 and timeout 0, after three record_failure()
   calls the breaker is Open, and the next can_attempt() returns true and moves
   it to HalfOpen, whether or not the clock has advanced. *)
C10_ZeroTimeout ==
    (cb.failure_threshold = 3 /\ cb.timeout = 0 /\ streak = 3) =>
        /\ op = "record_failure" => cb.state = "Open"
        /\ (op = "can_attempt" /\ before.state = "Open") =>
                (ret = TRUE /\ cb.state = "HalfOpen")

C10_Witness ==
    /\ cb.failure_threshold = 3
    /\ cb.timeout = 0
    /\ streak = 3
    /\ op = "can_attempt"
    /\ before.state = "Open"
    /\ called_at = before.last_failure_time
    /\ ret = TRUE
    /\ cb.state = "HalfOpen"

(* C11: in every reachable state of a breaker driven by any sequence of
   record_success(), record_failure() and can_attempt() calls (each call is
   one critical section), state = Open implies
   failure_count >= failure_threshold. *)
C11_OpenImpliesThreshold ==
    cb.state = "Open" => cb.failure_count >= cb.failure_threshold

C11_Witness ==
    /\ cb.state = "Open"
    /\ cb.failure_threshold = 2
    /\ cb.failure_count = 2
    /\ op = "record_failure"
    /\ before.state = "Closed"
    /\ before.failure_count = 1

(* C12, checked under SpecOneKey: the pool's breaker starts Closed at failure_count 0 with threshold 5;
   when the 5th invocation in a row that missed the cache and exhausted all
   its attempts returns, with no successful fetch in between, the breaker is
   Open; an invocation that misses the cache and reaches the gate after that,
   less than 30 s after the last failure, returns the "Circuit breaker is
   OPEN" error in that step, having made no endpoint call, without a panic,
   and leaves the breaker Open. *)
C12_Step ==
    \A p \in Tasks :
        /\ (task[p].pc = "record_failure" /\ Stepped(p) /\ exhausted' = 5) =>
                /\ task[p].fetches = MAX_RPC_RETRIES
                /\ cb'.state = "Open"
                /\ cb'.failure_count = 5
        /\ (task[p].pc = "gate" /\ Stepped(p) /\ exhausted = 5
                /\ now - cb.last_failure_time < 30) =>
                /\ cb.state = "Open"
                /\ task'[p].pc = "done"
                /\ task'[p].result = Err(CircuitOpenError)
                /\ task'[p].result # Panic
                /\ task'[p].fetches = 0
                /\ cb' = cb

C12_SustainedFailure == [][C12_Step]_vars

C12_Witness ==
    \E p \in Tasks :
        /\ exhausted = 5
        /\ cb.state = "Open"
        /\ now - cb.last_failure_time < 30
        /\ now > cb.last_failure_time
        /\ task[p].pc = "done"
        /\ task[p].result = Err(CircuitOpenError)
        /\ task[p].fetches = 0

----------------------------------------------------------------------------
(* Claims about the ObjectPool, checked under SpecOP. *)

(* the PooledObject values acquired and not yet dropped *)
Held == {h \in Handles : handle[h].live}

(* the instances acquire() created because it found the pool empty *)
Grown == factory_calls - capacity

(* the only user of the pool is thread 1 and it is between two operations *)
SingleThreadIdle == users = {1} /\ thr[1].pc = "idle"

(* C13 as stated: on a single thread, after any sequence of acquire and drop,
   size() = N - (number of objects currently held). *)
C13_Original ==
    SingleThreadIdle => size(objects) = capacity - Cardinality(Held)

(* C13 amended: on a single thread, after any sequence of acquire and drop,
   size() = N + (instances created by acquire() on an empty pool) - (number of
   objects currently held); it is N - held as long as acquire() has never
   found the pool empty, and once the pool has grown size() exceeds that. *)
C13_Conservation ==
    SingleThreadIdle =>
        /\ size(objects) = capacity + Grown - Cardinality(Held)
        /\ Grown >= 0
        /\ Grown = 0 => size(objects) = capacity - Cardinality(Held)
        /\ Grown > 0 => size(objects) > capacity - Cardinality(Held)

C13_Witness ==
    /\ SingleThreadIdle
    /\ capacity = 1
    /\ Grown = 1
    /\ Cardinality(Held) = 1
    /\ size(objects) = 1

(* C14: an idle thread can always acquire (the model only bounds the number
   of PooledObject values); the acquire step obtains an instance; on an empty
   pool it calls the factory exactly once, hands out the new instance and
   leaves size() at 0, also when more objects are held than the initial
   capacity; on a non-empty pool it calls no factory and hands out the last
   idle instance; the instance is then returned in a PooledObject. *)
C14_Step ==
    \A t \in Threads :
        /\ (t \in users /\ thr[t].pc = "idle"
                /\ Cardinality(FreeSlots) > Cardinality(Acquiring)) =>
                ENABLED AcquireLock(t)
        /\ (thr[t].pc = "idle" /\ thr'[t].pc = "acquired") =>
                /\ thr'[t].obj # NoObj
                /\ IF size(objects) = 0
                   THEN /\ factory_calls' = factory_calls + 1
                        /\ thr'[t].obj = factory_calls'
                        /\ size(objects') = 0
                   ELSE /\ factory_calls' = factory_calls
                        /\ thr'[t].obj = objects[Len(objects)]
                        /\ size(objects') = size(objects) - 1
        /\ (thr[t].pc = "acquired" /\ thr'[t].pc = "idle") =>
                /\ \E h \in Handles :
                        /\ ~handle[h].live
                        /\ handle' = [handle EXCEPT ![h] = PooledObject(t, thr[t].obj)]
                /\ objects' = objects
                /\ factory_calls' = factory_calls

C14_Growth == [][C14_Step]_vars

C14_Witness ==
    \E t \in Threads :
        /\ thr[t].pc = "acquired"
        /\ capacity = 1
        /\ Cardinality(Held) = 2
        /\ thr[t].obj = 3
        /\ factory_calls = 3
        /\ size(objects) = 0

(* the places where instance i is: idle in the pool, in a PooledObject, in a
   local of a thread inside acquire() or drop() *)
IdleAt(i)  == {n \in 1..Len(objects) : objects[n] = i}
HeldBy(i)  == {h \in Handles : handle[h].live /\ handle[h].obj = i}
LocalOf(i) == {t \in Threads : thr[t].pc \in {"acquired", "taken"} /\ thr[t].obj = i}

(* every instance made so far is in exactly one place *)
Exclusive ==
    \A i \in 1..factory_calls :
        Cardinality(IdleAt(i)) + Cardinality(HeldBy(i)) + Cardinality(LocalOf(i)) = 1

(* C15: with several threads acquiring and dropping in any interleaving,
   every instance is in exactly one place: no instance is in two PooledObject
   values, none is both idle in the pool and held, none is lost; drop() takes
   the instance out of its PooledObject and pushes exactly that instance,
   once, after which the PooledObject no longer exists. *)
C15_Step ==
    /\ Exclusive
    /\ Exclusive'
    /\ \A t \in Threads :
        /\ (thr[t].pc = "idle" /\ thr'[t].pc = "taken") =>
                /\ handle[thr'[t].h].live
                /\ handle[thr'[t].h].owner = t
                /\ thr'[t].obj = handle[thr'[t].h].obj
                /\ handle'[thr'[t].h].obj = NoObj
                /\ objects' = objects
        /\ (thr[t].pc = "taken" /\ thr'[t].pc = "idle") =>
                /\ objects' = Append(objects, thr[t].obj)
                /\ handle' = [handle EXCEPT ![thr[t].h] = NoHandle]

C15_ExclusiveOwnership == [][C15_Step]_vars

C15_Witness ==
    /\ users = Threads
    /\ thr[1].pc = "taken"
    /\ thr[2].pc = "acquired"
    /\ thr[1].obj # thr[2].obj
    /\ \E h \in Handles : handle[h].live /\ handle[h].owner = 2 /\ handle[h].obj # NoObj

----------------------------------------------------------------------------
(* C16, checked under SpecOneKey.  A put of V under K at time T with ttl D
   (add_to_cache) leaves a cache in which a lookup of K at any time t with
   T <= t < T + D returns V and at any time t >= T + D returns nothing,
   whatever entry K had before: the put replaces value and expiry.  The
   entry of K changes only by a put of K or a clear, and every lookup made by
   a call answers from the entry as it is then. *)
C16_Step ==
    /\ \A p \in Tasks :
            (task[p].pc = "add_to_cache" /\ Stepped(p)) =>
                \A t \in now..(now + cache_ttl + 1) :
                    LET r == get_from_cache(cache', task[p].key, t)
                    IN  IF t < now + cache_ttl
                        THEN r.some /\ r.data = task[p].account
                        ELSE ~r.some
    /\ \A k \in Keys :
            cache'[k] # cache[k] =>
                \/ \E p \in Tasks : /\ task[p].pc = "add_to_cache"
                                     /\ Stepped(p)
                                     /\ task[p].key = k
                \/ cache' = [j \in Keys |-> NoEntry]
    /\ \A p \in Tasks, k \in Keys :
            Calls(p, k) =>
                LET r == get_from_cache(cache, k, now)
                IN  IF r.some
                    THEN task'[p].pc = "done" /\ task'[p].result = Ok(r.data)
                    ELSE task'[p].pc = "gate"

C16_CacheTtl == [][C16_Step]_vars

C16_Witness ==
    \E p \in Tasks :
        /\ cache_ttl = 1
        /\ cache[task[p].key] # NoEntry
        /\ cache[task[p].key].expires_at = now
        /\ task[p].pc = "gate"

----------------------------------------------------------------------------
(* Claims about run_bot, checked under SpecEng (C17 under SpecEngFair). *)

(* startup is over, and build_and_send_transaction always succeeds for mint b
   while it always fails for another mint *)
FailingNeighbour(b) ==
    /\ main.pc = "running"
    /\ env.build[b] = "ok"
    /\ \E a \in Mints \ {b} : env.build[a] = "fail"

(* the strategy of mint b has completed an iteration whose
   build_and_send_transaction succeeded, and sleeps *)
IterationDone(b) == strategy[b].pc = "sleep" /\ strategy[b].outcome = "Ok"

(* C17: once both strategy loops run, with build_and_send_transaction failing
   on every iteration of one mint and succeeding on every iteration of the
   other mint b, under fair scheduling the loop of b again and again starts an
   iteration and again and again completes a successful one: it completes
   infinitely many successful iterations. *)
C17_Isolation ==
    \A b \in Mints :
        /\ FailingNeighbour(b) ~> strategy[b].pc = "read"
        /\ FailingNeighbour(b) ~> IterationDone(b)

C17_Witness ==
    /\ FailingNeighbour(2)
    /\ env.build[1] = "fail"
    /\ strategy[1].pc = "sleep"
    /\ strategy[1].outcome = "Err"
    /\ IterationDone(2)

(* C18: a step taken by a strategy task keeps it in the loop: after a failed
   build_and_send_transaction the task sleeps; after a log_trade, failed or
   not, it handles the next signature or sleeps; after the sleep it starts the
   next iteration.  Neither failure changes run_bot, the other tasks or the
   cached blockhash.  A strategy task ends only when run_bot has returned an
   error during startup and the runtime is dropped. *)
C18_Step ==
    \A m \in Mints :
        /\ (strategy[m].pc = "build" /\ strategy'[m].outcome = "Err"
                /\ strategy'[m] # strategy[m]) =>
                /\ strategy'[m].pc = "sleep"
                /\ main' = main
                /\ refresher' = refresher
                /\ cached_blockhash' = cached_blockhash
                /\ \A o \in Mints \ {m} : strategy'[o] = strategy[o]
        /\ (strategy[m].pc = "log" /\ strategy'[m] # strategy[m]
                /\ Running(strategy'[m])) =>
                /\ strategy'[m].signatures = Tail(strategy[m].signatures)
                /\ strategy'[m].pc = IF strategy'[m].signatures = << >>
                                     THEN "sleep" ELSE "log"
                /\ strategy'[m].outcome = "Ok"
                /\ main' = main
                /\ \A o \in Mints \ {m} : strategy'[o] = strategy[o]
        /\ (strategy[m].pc = "sleep" /\ strategy'[m] # strategy[m]
                /\ Running(strategy'[m])) =>
                strategy'[m].pc = "read"
        /\ (strategy[m].pc = "read" /\ strategy'[m] # strategy[m]
                /\ Running(strategy'[m])) =>
                strategy'[m].pc = "copy"
        /\ (strategy[m].pc = "copy" /\ strategy'[m] # strategy[m]
                /\ Running(strategy'[m])) =>
                strategy'[m].pc = "lock"
        /\ (strategy[m].pc = "lock" /\ strategy'[m] # strategy[m]
                /\ Running(strategy'[m])) =>
                strategy'[m].pc = "build"
        /\ (Running(strategy[m]) /\ ~Running(strategy'[m])) =>
                main.pc = "returned"

C18_BadIteration == [][C18_Step]_vars

C18_Witness ==
    /\ main.pc = "running"
    /\ strategy[1].pc = "build"
    /\ strategy[1].outcome = "Err"
    /\ strategy[2].pc = "build"
    /\ strategy[2].outcome = "Ok"
    /\ strategy[2].log_failed

(* C19: a refresher cycle whose fetch succeeded stores the fetched blockhash
   in the cached value, one whose fetch failed leaves the cached value as it
   was; either way the task sleeps next and fetches again after the sleep.
   Only the refresher writes the cached value, which holds a blockhash
   whenever a task runs.  The refresher ends only when run_bot has returned an
   error during startup and the runtime is dropped. *)
C19_Step ==
    /\ (refresher.pc = "fetch" /\ refresher' # refresher /\ Running(refresher')) =>
            /\ cached_blockhash' = cached_blockhash
            /\ \/ refresher' = [pc |-> "store", blockhash |-> chain]
               \/ refresher' = [pc |-> "sleep", blockhash |-> NoHash]
    /\ (refresher.pc = "store" /\ refresher'.pc # "store" /\ Running(refresher')) =>
            /\ cached_blockhash' = cached_blockhash
            /\ refresher' = [refresher EXCEPT !.pc = "assign"]
    /\ (refresher.pc = "assign" /\ refresher'.pc # "assign" /\ Running(refresher')) =>
            /\ cached_blockhash' = refresher.blockhash
            /\ refresher'.pc = "sleep"
    /\ (refresher.pc = "sleep" /\ refresher'.pc # "sleep" /\ Running(refresher')) =>
            /\ refresher'.pc = "fetch"
            /\ cached_blockhash' = cached_blockhash
    /\ (Running(refresher) /\ cached_blockhash' # cached_blockhash) =>
            refresher.pc = "assign"
    /\ (Running(refresher') \/ \E m \in Mints : Running(strategy'[m])) =>
            cached_blockhash' \in 1..MaxBlockhash
    /\ (Running(refresher) /\ ~Running(refresher')) => main.pc = "returned"

C19_RefresherKeepsToken == [][C19_Step]_vars

C19_Witness ==
    /\ refresher.pc = "fetch"
    /\ chain = 2
    /\ cached_blockhash = 1
    /\ \E m \in Mints : strategy[m].pc = "build" /\ strategy[m].latest_blockhash = 1
    /\ main.pc = "running"

(* C20: when the initial blockhash fetch fails, run_bot returns the retryable
   RpcError "Failed to get initial blockhash", and in no later state has the
   refresher or a strategy task been spawned or a blockhash been cached. *)
C20_FatalInitialization ==
    main.result = Err(InitialBlockhashError) =>
        /\ main.pc = "returned"
        /\ is_retryable(main.result.error)
        /\ refresher = NoRefresher
        /\ \A m \in Mints : strategy[m] = NoStrategy
        /\ cached_blockhash = NoHash

C20_Witness ==
    /\ main.pc = "returned"
    /\ main.result = Err(InitialBlockhashError)

----------------------------------------------------------------------------
(* C21 as stated, checked under SpecEng: once the refresher and the strategy
   loop of a mint a run, no step makes run_bot return and no step stops the
   loop of a or the refresher.  The code does not have this property: the `?`
   on initialize_pool_data of a later mint returns from run_bot after the
   loop of an earlier mint was spawned, and the runtime is then dropped. *)
C21_Step ==
    \A a \in Mints :
        (Running(refresher) /\ Running(strategy[a])) =>
            /\ main'.pc # "returned"
            /\ Running(refresher')
            /\ Running(strategy'[a])

C21_NoCrossTermination == [][C21_Step]_vars

(* C22: once run_bot has stored the initial blockhash, a step that changes
   the cached blockhash is the assignment of the refresher, made while it
   holds the guard, and the value assigned is the one its latest successful
   fetch returned; a step of a strategy task never changes the cached value.
   Hence the cached value stays the initial one until a refresher fetch has
   succeeded, and, whenever the refresher is not between a successful fetch
   and its assignment, it is the value of the latest successful fetch. *)
C22_Step ==
    /\ \A m \in Mints :
            (Running(strategy[m]) /\ strategy'[m] # strategy[m]) =>
                cached_blockhash' = cached_blockhash
    /\ (hist.refreshers > 0 /\ cached_blockhash' # cached_blockhash) =>
            /\ refresher.pc = "assign"
            /\ token_lock = RefresherTask
            /\ refresher'.pc = "sleep"
            /\ cached_blockhash' = hist.fetched
    /\ (hist.refreshers > 0 /\ hist'.fetched = NoHash) =>
            cached_blockhash' = cached_blockhash
    /\ (hist'.fetched # NoHash /\ refresher'.pc \in {"fetch", "sleep"}) =>
            cached_blockhash' = hist'.fetched

C22_SingleWriter == [][C22_Step]_vars

C22_Witness ==
    /\ refresher.pc = "sleep"
    /\ cached_blockhash = 2
    /\ hist.fetched = 2
    /\ strategy[1].pc = "build"
    /\ strategy[1].latest_blockhash = 1
    /\ strategy[2].pc = "copy"

(* C23: the strategy task of a mint starts an iteration (asks for the guard
   of the cached blockhash) either when it is spawned or from the sleep that
   ends the previous iteration, and then no call of
   build_and_send_transaction of that mint is in flight, no signature of the
   previous iteration is left to handle and the guard of its pool data is
   free.  The sleep is entered only from the returned call or from the
   handling of the last signature.  At most one build_and_send_transaction
   call per mint is in flight at any time, and it is in flight exactly while
   the task is at the call. *)
C23_Step ==
    \A m \in Mints :
        /\ (strategy'[m].pc = "read" /\ strategy[m].pc # "read") =>
                \/ strategy[m].pc = "none" /\ main.pc = "spawn"
                \/ /\ strategy[m].pc = "sleep"
                   /\ strategy[m].signatures = << >>
                   /\ strategy[m].outcome # "none"
                   /\ hist.in_flight[m] = 0
                   /\ pool_data_lock[m] = Unlocked
        /\ (strategy'[m].pc = "sleep" /\ strategy[m].pc # "sleep") =>
                /\ strategy[m].pc \in {"build", "log"}
                /\ strategy[m].pc = "log" => Len(strategy[m].signatures) = 1
                /\ hist'.in_flight[m] = 0
        /\ hist'.in_flight[m] \in {0, 1}
        /\ hist'.in_flight[m] = 1 <=> strategy'[m].pc = "build"

C23_SequentialIterations == [][C23_Step]_vars

C23_Witness ==
    /\ strategy[1].pc = "read"
    /\ strategy[1].outcome = "Ok"
    /\ hist.in_flight[1] = 0
    /\ strategy[2].pc = "build"
    /\ strategy[2].outcome = "Err"
    /\ hist.in_flight[2] = 1

(* C24 as stated, checked under SpecShutdown: the shutdown flag starts false
   and a step never resets it; once it is set, no strategy task and no
   refresher leaves its sleep for a further iteration.  The code does not
   have the second property: neither loop reads the flag. *)
C24_Step ==
    /\ should_shutdown => should_shutdown'
    /\ should_shutdown =>
            /\ \A m \in Mints : ~(strategy[m].pc = "sleep" /\ strategy'[m].pc = "read")
            /\ ~(refresher.pc = "sleep" /\ refresher'.pc = "fetch")

C24_CooperativeShutdown == [][C24_Step]_vars

(* C25: run_bot spawns the refresher once, in the step that stores the
   initial blockhash and before any strategy task exists; it spawns the
   strategy task of a mint once, when the refresher has been spawned; and
   when run_bot has gone through its list of mints, exactly one task has been
   spawned for every mint. *)
C25_Step ==
    /\ hist'.refreshers > hist.refreshers =>
            /\ hist.refreshers = 0
            /\ main.pc = "initial_blockhash"
            /\ cached_blockhash' = chain
            /\ cached_blockhash' # NoHash
            /\ Running(refresher')
            /\ \A m \in Mints : hist'.loops[m] = 0 /\ strategy'[m] = NoStrategy
    /\ \A m \in Mints :
            /\ hist'.loops[m] > hist.loops[m] =>
                    /\ hist.loops[m] = 0
                    /\ hist.refreshers = 1
                    /\ main.pc = "spawn"
                    /\ strategy[m] = NoStrategy
                    /\ strategy'[m].pc = "read"
                    /\ \A o \in Mints \ {m} : hist'.loops[o] = hist.loops[o]
            /\ Running(strategy'[m]) => hist'.loops[m] = 1
    /\ Running(refresher') => hist'.refreshers = 1
    /\ main'.pc = "running" =>
            /\ hist'.refreshers = 1
            /\ \A m \in Mints : hist'.loops[m] = 1

C25_StartupOrder == [][C25_Step]_vars

C25_Witness ==
    /\ main.pc = "running"
    /\ hist.refreshers = 1
    /\ \A m \in Mints : hist.loops[m] = 1 /\ Running(strategy[m])
    /\ Running(refresher)

(* C26: with n >= 1 clients the stored index stays in 0..n-1; the
   get_next_client call number k, counted (modulo n) from 0 over all attempts
   of all (also concurrent) invocations, returns client k mod n and leaves
   (k + 1) mod n in the index, whatever the earlier attempts returned; with
   n >= 2 the retry of an invocation whose own failed attempt made the latest
   selection goes to another client than that attempt. *)
C26_Step ==
    /\ current_client_index' \in 0..(clients - 1)
    /\ current_client_index' = selections'.count % clients
    /\ selections' # selections =>
            \E p \in Tasks : task[p].pc = "select" /\ task'[p].pc = "fetch"
    /\ \A p \in Tasks :
            (task[p].pc = "select" /\ task'[p].pc = "fetch") =>
                /\ task'[p].client = selections.count % clients
                /\ selections' = [count |-> (selections.count + 1) % clients, by |-> p]
                /\ (clients >= 2 /\ task[p].attempt > 0 /\ selections.by = p) =>
                        task'[p].client # task[p].client

C26_RoundRobin == [][C26_Step]_vars

C26_Witness ==
    /\ clients = 2
    /\ task[1].pc = "fetch"
    /\ task[1].attempt = 1
    /\ task[1].client = 0
    /\ task[2].pc = "fetch"
    /\ task[2].attempt = 2
    /\ task[2].client = 1
    /\ selections.by = 2

(* C27: within one invocation the sleep that follows failed attempt number i
   lasts min(RETRY_INITIAL_BACKOFF_MS * 2^(i-1), RETRY_MAX_BACKOFF_MS) ms,
   which is 100, 200, 400, 800 ms for i = 1..4 and never more than
   RETRY_MAX_BACKOFF_MS; an invocation sleeps only after a failed attempt
   that is not the last one: after failed attempt number MAX_RPC_RETRIES it
   goes on to record the failure, after a successful attempt to record the
   success, in both cases without a further sleep. *)
RECURSIVE Pow2(_)
Pow2(n) == IF n = 0 THEN 1 ELSE 2 * Pow2(n - 1)

BackoffAfter(i) ==
    LET b == RETRY_INITIAL_BACKOFF_MS * Pow2(i - 1)
    IN  IF b < RETRY_MAX_BACKOFF_MS THEN b ELSE RETRY_MAX_BACKOFF_MS

C27_Step ==
    \A p \in Tasks :
        /\ Len(task'[p].slept) <= MAX_RPC_RETRIES - 1
        /\ \A i \in 1..Len(task'[p].slept) :
                /\ task'[p].slept[i] = BackoffAfter(i)
                /\ task'[p].slept[i] = <<100, 200, 400, 800>>[i]
                /\ task'[p].slept[i] <= RETRY_MAX_BACKOFF_MS
        /\ (task'[p].pc = "sleep" /\ task[p].pc # "sleep") =>
                /\ task[p].pc = "fetch"
                /\ task'[p].seen_error # NoError
                /\ task'[p].fetches = task[p].fetches + 1
                /\ task'[p].fetches < MAX_RPC_RETRIES
                /\ task'[p].slept = Append(task[p].slept, BackoffAfter(task'[p].fetches))
        /\ (task[p].pc = "fetch" /\ task'[p].pc \notin {"fetch", "sleep"}) =>
                /\ task'[p].slept = task[p].slept
                /\ \/ task'[p].pc = "record_success"
                   \/ /\ task'[p].pc = "record_failure"
                      /\ task'[p].fetches = MAX_RPC_RETRIES
                      /\ Len(task'[p].slept) = MAX_RPC_RETRIES - 1
        /\ (task[p].pc \notin {"fetch", "idle", "done"}
                /\ task'[p].pc \notin {"idle", "done"}) =>
                task'[p].slept = task[p].slept

C27_BackoffSchedule == [][C27_Step]_vars

C27_Witness ==
    /\ task[1].pc = "record_failure"
    /\ task[1].slept = <<100, 200, 400, 800>>
    /\ task[1].fetches = MAX_RPC_RETRIES

(* C28 as stated: while the strategy task of a mint is at its
   build_and_send_transaction call it holds the guard of the pool data of the
   mint, and while it handles the result or sleeps it does not.  This holds
   of the loop of src/src/engine/bot.rs (SpecEng); the loop of src/src/bot.rs
   (SpecLegacy) keeps the guard while it sleeps. *)
C28_InstrumentLockScope ==
    \A m \in Mints :
        /\ strategy[m].pc = "build" => pool_data_lock[m] = m
        /\ strategy[m].pc \in {"log", "sleep"} => pool_data_lock[m] = Unlocked

(* C29: a strategy task holds the guard of the cached blockhash exactly
   while it copies the value: not while it waits for or holds the guard of
   its pool data, not during its build_and_send_transaction call, the
   handling of the result or the sleep.  The refresher holds it exactly for
   its assignment, not during its fetch or its sleep.  So no task holds the
   guard of the blockhash together with a guard of pool data, and a call in
   flight for one mint leaves the guard of the blockhash to the other tasks.
   Under fair scheduling a task that asks for the guard of the blockhash
   gets it (unless the runtime is dropped first). *)
C29_Scope ==
    /\ \A m \in Mints :
            /\ token_lock = m <=> strategy[m].pc = "copy"
            /\ pool_data_lock[m] \in {Unlocked, m}
            /\ pool_data_lock[m] = m => strategy[m].pc = "build"
            /\ ~(token_lock = m /\ pool_data_lock[m] = m)
    /\ token_lock = RefresherTask <=> refresher.pc = "assign"
    /\ token_lock \in {Unlocked, RefresherTask} \cup Mints

C29_TokenLockScope ==
    /\ []C29_Scope
    /\ \A m \in Mints :
            strategy[m].pc = "read" ~> strategy[m].pc \in {"copy", "cancelled"}
    /\ refresher.pc = "store" ~> refresher.pc \in {"assign", "cancelled"}

C29_Witness ==
    /\ token_lock = 1
    /\ strategy[1].pc = "copy"
    /\ strategy[2].pc = "build"
    /\ pool_data_lock[2] = 2
    /\ refresher.pc = "store"

(* C30: an invocation of get_account_with_retry holds no guard of the cache,
   the breaker or the index between its steps, in particular not while its
   endpoint call is in flight or while it sleeps for the backoff, and it
   never holds two guards at once.  So every lock is free for every
   invocation at every moment: no invocation waits for a lock held by an
   invocation that itself waits, fetches or sleeps, and the cache lookup of a
   call is not held up by another invocation. *)
C30_LockDiscipline ==
    \A p \in Tasks :
        /\ task[p].guards = {}
        /\ task[p].peak <= 1
        /\ \A l \in Locks : lock_free(l, p)
        /\ task[p].pc \in {"fetch", "sleep"} =>
                \A q \in Tasks \ {p} :
                    task[q].pc \in {"idle", "done"} =>
                        \E k \in workload.pubkeys : ENABLED Start(q, k)

C30_Witness ==
    /\ task[1].pc = "sleep"
    /\ task[1].peak = 1
    /\ task[2].pc = "done"
    /\ task[2].result.kind = "Ok"
    /\ task[2].fetches = 0
    /\ task[2].peak = 1

----------------------------------------------------------------------------
(* C31: a step changes the state of the breaker only in one of four ways:
   Closed -> Open by a record_failure() that brings failure_count to the
   threshold or beyond, Open -> HalfOpen by a can_attempt() called when the
   timeout has elapsed since the last failure, HalfOpen -> Open by
   record_failure(), and any state -> Closed by record_success().  A step
   that is none of the three methods (time passing) leaves the state as it
   is, and a record_failure() in HalfOpen always reopens. *)
C31_Step ==
    /\ cb'.state # cb.state =>
            \/ /\ cb.state = "Closed" /\ cb'.state = "Open"
               /\ op' = "record_failure"
               /\ cb'.failure_count >= cb.failure_threshold
            \/ /\ cb.state = "Open" /\ cb'.state = "HalfOpen"
               /\ op' = "can_attempt"
               /\ cb.last_failure_time # None
               /\ now - cb.last_failure_time >= cb.timeout
            \/ /\ cb.state = "HalfOpen" /\ cb'.state = "Open"
               /\ op' = "record_failure"
            \/ /\ cb'.state = "Closed"
               /\ op' = "record_success"
    /\ cb'.state # cb.state => (before' = cb /\ called_at' = now)
    /\ (cb.state = "HalfOpen" /\ op' = "record_failure" /\ before' = cb
            /\ cb' # cb) => cb'.state = "Open"

C31_TransitionRelation == [][C31_Step]_vars

C31_Witness ==
    /\ op = "record_failure"
    /\ before.state = "HalfOpen"
    /\ cb.state = "Open"
    /\ probes = 0
    /\ streak > cb.failure_threshold
    /\ cb.failure_threshold > 0

(* C32: a can_attempt() call leaves failure_count, last_failure_time, the
   threshold and the timeout as they were.  Called on a Closed or a HalfOpen
   breaker it returns true and changes nothing, however many calls were made
   before it.  Called on an Open breaker it returns true exactly when it
   moves the breaker to HalfOpen, which it does in that same call when the
   timeout has elapsed since the last failure; otherwise it returns false
   and changes nothing. *)
C32_CanAttemptEffects ==
    op = "can_attempt" =>
        /\ cb.failure_count = before.failure_count
        /\ cb.last_failure_time = before.last_failure_time
        /\ cb.failure_threshold = before.failure_threshold
        /\ cb.timeout = before.timeout
        /\ before.state \in {"Closed", "HalfOpen"} => (ret /\ cb = before)
        /\ before.state = "Open" =>
                /\ ret <=> cb.state = "HalfOpen"
                /\ ~ret <=> cb = before
                /\ ret <=> /\ before.last_failure_time # None
                           /\ called_at - before.last_failure_time >= before.timeout

C32_Witness ==
    /\ op = "can_attempt"
    /\ before.state = "HalfOpen"
    /\ cb = before
    /\ ret
    /\ probes = 1
    /\ cb.timeout > 0

(* C33: the cache lookup that starts an invocation leaves the cache as it
   is; a stored entry, expired or not, changes only when add_to_cache stores
   the account fetched for that key, or when clear_cache empties the cache.
   get_cache_stats() returns (valid, expired) whose sum is the number of
   stored entries, valid being the entries a lookup would serve and expired
   those it would refuse; an empty cache (a new pool, a pool after
   clear_cache) reports (0, 0). *)
Stored(c) == {k \in Keys : c[k] # NoEntry}

C33_Step ==
    /\ \A p \in Tasks :
            (task[p].pc \in {"idle", "done"} /\ task'[p] # task[p]) => cache' = cache
    /\ cache' # cache =>
            \/ /\ Stored(cache') = {}
               /\ task' = task
            \/ \E p \in Tasks :
                    /\ task[p].pc = "add_to_cache"
                    /\ task'[p].pc = "done"
                    /\ cache' = [cache EXCEPT ![task[p].key] =
                            [data |-> task[p].account, expires_at |-> now + cache_ttl]]
    /\ LET stats == get_cache_stats(cache', now')
       IN  /\ stats[1] + stats[2] = Cardinality(Stored(cache'))
           /\ stats[1] = Cardinality({k \in Keys : get_from_cache(cache', k, now').some})
           /\ stats[2] = Cardinality({k \in Stored(cache') :
                                          ~get_from_cache(cache', k, now').some})
           /\ Stored(cache') = {} => stats = <<0, 0>>

C33_LazyExpiration == [][C33_Step]_vars

C33_Witness ==
    /\ cache["k1"] # NoEntry
    /\ cache["k1"].expires_at <= now
    /\ get_cache_stats(cache, now) = <<0, 1>>
    /\ task[1].pc = "gate"
    /\ task[1].key = "k1"
    /\ cache_ttl > 0

(* C34: in every iteration the strategy task copies the cached blockhash
   while it holds the guard, and the copy is what the iteration works with:
   it stays as it is until build_and_send_transaction has returned, also
   when the refresher replaces the cached value meanwhile.  The copy is a
   local of the iteration: outside the span from the copy to the return of
   the call the task has none, so an iteration never works with the copy of
   an earlier one. *)
C34_Step ==
    \A m \in Mints :
        /\ (strategy[m].pc = "copy" /\ strategy'[m].pc = "lock") =>
                /\ strategy'[m].latest_blockhash = cached_blockhash
                /\ cached_blockhash' = cached_blockhash
                /\ token_lock = m
        /\ (strategy[m].pc \in {"lock", "build"} /\ strategy'[m].pc \in {"lock", "build"}) =>
                strategy'[m].latest_blockhash = strategy[m].latest_blockhash
        /\ strategy'[m].pc \in {"lock", "build"} =>
                strategy'[m].latest_blockhash \in 1..MaxBlockhash
        /\ strategy'[m].pc \notin {"lock", "build"} =>
                strategy'[m].latest_blockhash = NoHash

C34_TokenFreshness == [][C34_Step]_vars

C34_Witness ==
    /\ strategy[1].pc = "build"
    /\ strategy[1].outcome = "Ok"
    /\ strategy[1].latest_blockhash = 2
    /\ cached_blockhash = 2
    /\ strategy[2].pc = "build"
    /\ strategy[2].latest_blockhash = 1

(* C35: with one or two threads acquiring and dropping in any interleaving,
   the instances idle in the pool plus the instances in use (in a
   PooledObject, or in the hands of a thread inside acquire() or drop()) are
   the initial capacity plus the instances acquire() created on an empty
   pool.  A drop pushes its instance whatever the size of the pool, so
   size() can exceed the initial capacity, and no step lowers the number of
   instances. *)
InUse ==
    Cardinality({h \in Handles : handle[h].live /\ handle[h].obj # NoObj})
        + Cardinality({t \in Threads : thr[t].pc \in {"acquired", "taken"}})

C35_Step ==
    /\ size(objects') + InUse' = capacity' + Grown'
    /\ Grown' >= Grown
    /\ Grown' > Grown =>
            /\ size(objects) = 0
            /\ Grown' = Grown + 1
            /\ \E t \in Threads : thr[t].pc = "idle" /\ thr'[t].pc = "acquired"
    /\ size(objects') + InUse' >= size(objects) + InUse
    /\ \A t \in Threads :
            (thr[t].pc = "taken" /\ thr'[t].pc = "idle") =>
                size(objects') = size(objects) + 1

C35_Accounting == [][C35_Step]_vars

C35_Witness ==
    /\ users = Threads
    /\ capacity = 1
    /\ size(objects) = 2
    /\ Grown = 2
    /\ thr[1].pc = "taken"
    /\ thr[2].pc = "idle"

(* C36: an invocation consults can_attempt() once, at its gate, which it
   reaches only from its cache lookup and before any attempt; only there can
   it return the "Circuit breaker is OPEN" error.  Past the gate its
   selection of a client, its endpoint call and its backoff go on whatever
   the state of the breaker, also when another invocation has opened the
   breaker meanwhile; a success that arrives while the breaker is Open
   closes it, whether or not the timeout has elapsed. *)
C36_Step ==
    \A p \in Tasks :
        /\ (task'[p].pc = "gate" /\ task[p].pc # "gate") =>
                /\ task[p].pc \in {"idle", "done"}
                /\ task'[p].attempt = 0
                /\ task'[p].fetches = 0
        /\ (task'[p].result = Err(CircuitOpenError) /\ task'[p] # task[p]) =>
                /\ task[p].pc = "gate"
                /\ task[p].fetches = 0
        /\ (task[p].pc \in {"select", "fetch", "sleep"} /\ task'[p] # task[p]) =>
                /\ cb' = cb
                /\ task'[p].pc \in {"select", "fetch", "sleep",
                                     "record_success", "record_failure"}
        /\ (task[p].pc = "select" /\ cb.state = "Open") => ENABLED Select(p)
        /\ (task[p].pc = "fetch" /\ cb.state = "Open") =>
                (ENABLED FetchErr(p) /\ \E v \in workload.accounts : ENABLED FetchOk(p, v))
        /\ (task[p].pc = "record_success" /\ task'[p] # task[p]) =>
                cb'.state = "Closed"

C36_GateOnce == [][C36_Step]_vars

C36_Witness ==
    /\ cb.state = "Open"
    /\ now - cb.last_failure_time < cb.timeout
    /\ task[1].pc = "done"
    /\ task[1].result.kind = "Err"
    /\ task[1].result.error # CircuitOpenError
    /\ task[2].pc = "record_success"
    /\ task[2].fetches = 3

(* C37: after record_failure() on a breaker that was already Open, the
   breaker is still Open, its failure_count is one higher and its
   last_failure_time is the time of that call; from then on can_attempt()
   measures the timeout from that call, so it admits a caller exactly when
   the timeout has elapsed since then, also when the timeout since the
   earlier failure is already over. *)
C37_FailureWhileOpen ==
    (op = "record_failure" /\ before.state = "Open") =>
        /\ cb.state = "Open"
        /\ cb.failure_count = before.failure_count + 1
        /\ cb.last_failure_time = called_at
        /\ before.last_failure_time # None
        /\ before.last_failure_time <= cb.last_failure_time
        /\ can_attempt(cb, now).ret <=> (now - called_at >= cb.timeout)
        /\ can_attempt(cb, now).cb.state = "HalfOpen" <=> (now - called_at >= cb.timeout)

C37_Witness ==
    /\ op = "record_failure"
    /\ before.state = "Open"
    /\ now - before.last_failure_time >= cb.timeout
    /\ now - cb.last_failure_time < cb.timeout
    /\ ~can_attempt(cb, now).ret
    /\ can_attempt(before, now).ret

(* C38: a breaker that is Open or HalfOpen has a recorded failure time, so
   can_attempt() never rejects an Open breaker for want of one: a rejection
   of an Open breaker means that the timeout has not elapsed, and from the
   moment it has elapsed, failing a newer failure, can_attempt() admits the
   caller and moves the breaker to HalfOpen. *)
C38_OpenHasFailureTime ==
    /\ cb.state \in {"Open", "HalfOpen"} => cb.last_failure_time # None
    /\ cb.state = "Open" =>
            /\ cb.last_failure_time \in 0..now
            /\ ~can_attempt(cb, now).ret => now - cb.last_failure_time < cb.timeout
            /\ \A t \in (cb.last_failure_time + cb.timeout)..(MaxTime + MaxTimeout) :
                   /\ can_attempt(cb, t).ret
                   /\ can_attempt(cb, t).cb.state = "HalfOpen"

C38_Witness ==
    /\ cb.state = "Open"
    /\ op = "can_attempt"
    /\ ~ret
    /\ called_at < now
    /\ cb.timeout > 0
    /\ now = cb.last_failure_time + cb.timeout
    /\ can_attempt(cb, now).cb.state = "HalfOpen"

(* C39: a pool built from an empty list of URLs exists.  A call on it
   misses the cache, passes the Closed breaker, and unwinds in the selection
   of a client of its first attempt: it ends with a panic and never with Ok
   or Err, no endpoint was called, record_failure() was not called (the
   breaker is as constructed) and the cache has no entry. *)
C39_Step ==
    /\ clients = 0
    /\ cb = CircuitBreaker_new(POOL_FAILURE_THRESHOLD, POOL_BREAKER_TIMEOUT)
    /\ cache = [k \in Keys |-> NoEntry]
    /\ exhausted = 0
    /\ \A p \in Tasks :
        /\ task[p].pc \in {"idle", "gate", "select", "done"}
        /\ task[p].pc = "done" => task[p].result = Panic
        /\ task[p].attempt = 0
        /\ task[p].fetches = 0
        /\ (task[p].pc = "idle" /\ task'[p] # task[p]) => task'[p].pc = "gate"
        /\ (task[p].pc = "gate" /\ task'[p] # task[p]) =>
                (cb.state = "Closed" /\ task'[p].pc = "select")
        /\ (task[p].pc = "select" /\ task'[p] # task[p]) =>
                /\ task'[p].pc = "done"
                /\ task'[p].result.kind \notin {"Ok", "Err"}
                /\ cb' = cb
                /\ cache' = cache

C39_EmptyEndpointList == [][C39_Step]_vars

C39_Witness ==
    /\ clients = 0
    /\ task[1].pc = "done"
    /\ task[1].result = Panic
    /\ task[1].key = "k1"
    /\ task[2].pc = "select"
    /\ cb.state = "Closed"
    /\ cb.failure_count = 0

====
